---- MODULE Spec2Model ----
(***************************************************************************)
(* A model of citymux: the pane-layout tree (span.rs, layout.rs, spawn.rs) *)
(* and renterm's grid abstraction (canvas.rs, view.rs, rect.rs).           *)
(*                                                                         *)
(*   Spec        the layout tree driven by update_size, create_span,       *)
(*               set_active_span and remove_node_from_state                *)
(*   SpecLayout  get_span_dimensions applied to one span whose children    *)
(*               carry arbitrary positive weights                          *)
(*   SpecCanvas  a renterm Canvas and the views stacked on it              *)
(*   SpecDraw    draw_loop: the diff renderer of draw.rs                   *)
(*   SpecSched   the draw triggers, the draw channel and the draw lock     *)
(*   SpecPanes   panes with their processes and tasks: create, kill, end   *)
(*   SpecPty     release calls on the two copies of one pseudo-terminal    *)
(*   SpecExit    removal of the last pane, exit and the draw loop          *)
(*   SpecRow     create_span on a long row of panes                        *)
(*   SpecRace    create_span calls of concurrent handlers, with removals   *)
(*   SpecTerm    execute_command of the terminal emulator (old canvas.rs)  *)
(*   SpecPaneDraw  a pane's border and its terminal snapshot on the frame  *)
(*   SpecScreen  set_cell, get_cell and put_canvas of the old Canvas       *)
(*   SpecWrite   draw_loop with writes to the terminal that can fail       *)
(*   SpecKill    one create_span in steps against kill_span of a pane task *)
(*   SpecRender  draw over the panes: emulator and PTY sizes, the cursor   *)
(*   SpecLocks   the locks of State and of the Processes, task by task     *)
(*   SpecLocksFair  SpecLocks under fair scheduling                        *)
(***************************************************************************)
EXTENDS Integers, Sequences, FiniteSets, TLC

VARIABLES
    root_node,        \* State.root_node: Option<Node>
    active_id,        \* State.active_id
    span_id_counter,  \* State.span_id_counter
    size,             \* State.size: the terminal size
    exited,           \* exit() has been invoked: the process is gone
    tasks,            \* span ids of the pane tasks (handle_process) spawned so far
    ret,              \* the last call on the tree: its name, argument and result
    l_node,           \* SpecLayout: the span handed to get_span_dimensions
    l_rect,           \* SpecLayout: the parent rectangle handed to it
    l_out,            \* SpecLayout: the rectangle returned for each child
    canvas,           \* SpecCanvas: Canvas {cells, size}
    views,            \* SpecCanvas: the rects of the SurfaceViews stacked on the canvas
    c_ret,            \* SpecCanvas: the last call on a surface and what it returned
    overflow_checks,  \* SpecCanvas: the build checks integer overflow (debug) or wraps
    panicked,         \* SpecCanvas: an overflow check aborted the call
    last_canvas,      \* SpecDraw: State.last_canvas, the frame rendered last
    stdout,           \* SpecDraw: what the last draw wrote to the terminal
    written_frame,    \* SpecWrite: the last frame whose bytes reached the terminal
    write_result,     \* SpecWrite: the Result of the last draw
    draw_lock,        \* SpecSched: State.draw_lock, free or held by a drawer
    draw_channel,     \* SpecSched: messages waiting in State.draw_channel
    drawer,           \* SpecSched: where each draw task stands
    trigger,          \* SpecSched: the last draw trigger and what became of it
    canvas_toggle,    \* SpecSched: State.canvas_toggle, which buffer is current
    processes,        \* SpecPanes: span ids of State.processes
    pane_task,        \* SpecPanes: where the task of each pane stands
    redrawn,          \* SpecPanes: ids whose removal a draw request followed
    is_closed,        \* SpecPty: WinPTY.is_closed, shared by both copies
    is_closed_lock,   \* SpecPty: who holds the mutex of is_closed
    releaser,         \* SpecPty: where each caller of release stands
    release_calls,    \* SpecPty: release calls made by each caller
    handle_closes,    \* SpecPty: how often each OS handle was closed
    release_ret,      \* SpecPty: the last release that returned
    root_guard,       \* SpecExit: who holds the lock of State.root_node
    exit_pc,          \* SpecExit: how far exit has come
    raw_mode,         \* SpecExit: the terminal is in raw mode
    stdout_buffer,    \* SpecExit: bytes held by std::io::stdout, not yet flushed
    draw_pc,          \* SpecExit: where the draw loop stands
    new_frame,        \* SpecExit: the frame the draw loop composed
    tty,              \* SpecExit: what reached the terminal, in order
    creating,         \* SpecRace: the create_span calls under way
    killing,          \* SpecKill: the kill_span call of a pane task under way
    emulator_size,    \* SpecRender: TerminalInfo.size of the emulator of each pane
    pty_size,         \* SpecRender: the size held by the PTY of each pane
    rendered,         \* SpecRender: what the last draw did
    held,             \* SpecLocks: the tasks holding each lock, with their mode
    lock_at,          \* SpecLocks: where each task stands in its sequence of lock operations
    version,          \* SpecLocks: changes made to the state, read and drawn by draw
    info,             \* SpecTerm: TerminalInfo {canvas, cursor, current_style, is_wrap_state_pending}
    command,          \* SpecTerm: the last command executed, and whether a wrap was pending
    screen,           \* SpecScreen: the Canvas a frame is composed on
    screen_ret        \* SpecScreen: the last call on that canvas and what it returned

treeVars == <<root_node, active_id, span_id_counter, size, exited, tasks, ret>>
layoutVars == <<l_node, l_rect, l_out>>
canvasVars == <<canvas, views, c_ret, overflow_checks, panicked>>
drawVars == <<last_canvas, stdout, written_frame, write_result>>
schedVars == <<draw_lock, draw_channel, drawer, trigger, canvas_toggle>>
paneVars == <<processes, pane_task, redrawn>>
ptyVars == <<is_closed, is_closed_lock, releaser, release_calls, handle_closes, release_ret>>
exitVars == <<root_guard, exit_pc, raw_mode, stdout_buffer, draw_pc, new_frame, tty>>
raceVars == <<creating, killing>>
renderVars == <<emulator_size, pty_size, rendered>>
lockVars == <<held, lock_at, version>>
termVars == <<info, command, screen, screen_ret>>
vars == <<treeVars, layoutVars, canvasVars, drawVars, schedVars, paneVars, ptyVars, exitVars, raceVars, renderVars, lockVars, termVars>>

---------------------------------------------------------------------------
(* Bounds of the model.                                                    *)

MaxId == 6          \* ids handed out by span_id_counter
MaxChildren == 3    \* SpecLayout: children of the span
MaxWeight == 4      \* SpecLayout: weight of a child
MaxExtent == 4      \* SpecLayout: width and height of the parent rectangle
MaxSize == 2        \* SpecCanvas: a component of a size handed to the canvas
MaxNegSize == 2     \* SpecCanvas: how far below zero such a component goes
MaxViews == 2       \* SpecCanvas: views stacked on the canvas
MaxFrameWidth == 3  \* SpecDraw: width of the one-row frames composed
MaxLockPanes == 1   \* SpecLocks: panes with a process
MaxChanges == 1     \* SpecLocks: changes of the state that are followed

\* Terminal sizes update_size may read (crossterm reports u16 columns, rows).
TermSizes == {<<80, 24>>, <<7, 7>>, <<3, 5>>}

---------------------------------------------------------------------------
(* renterm: Vector2, Rect.                                                 *)

Max(a, b) == IF a >= b THEN a ELSE b
Min(a, b) == IF a <= b THEN a ELSE b

Vector2(x, y) == [x |-> x, y |-> y]
Vector2_null == Vector2(0, 0)
Vector2_max(a, b) == Vector2(Max(a.x, b.x), Max(a.y, b.y))
Vector2_add(a, b) == Vector2(a.x + b.x, a.y + b.y)

\* Rect::new clamps the size to be non-negative.
Rect(position, sz) == [position |-> position, size |-> Vector2_max(sz, Vector2_null)]
Rect_bottom_right(r) == Vector2_add(r.position, r.size)
Rect_contains(r, v) ==
    /\ v.x >= r.position.x
    /\ v.y >= r.position.y
    /\ v.x < r.position.x + r.size.x
    /\ v.y < r.position.y + r.size.y

\* Option<T>, with one None per T so that values stay comparable.
Some(v) == [some |-> TRUE, val |-> v]
NoneId == [some |-> FALSE, val |-> 0]
NoneRect == [some |-> FALSE, val |-> Rect(Vector2_null, Vector2_null)]

---------------------------------------------------------------------------
(* span.rs: Node, NodeData, Span, SpanChild.  Weights (f64) are kept as    *)
(* integers: create_span only ever stores 1.0 or the average of the        *)
(* stored weights.                                                         *)

Void == [kind |-> "Void", direction |-> "None", children |-> <<>>]
Span(direction, children) ==
    [kind |-> "Span", direction |-> direction, children |-> children]
Node(id, data) == [id |-> id, data |-> data]
SpanChild(node, sz) == [size |-> sz, node |-> node]
NoneNode == [some |-> FALSE, val |-> Node(0, Void)]
Leaf(id) == Node(id, Void)

RECURSIVE SumSeq(_)
SumSeq(s) == IF s = <<>> THEN 0 ELSE Head(s) + SumSeq(Tail(s))

Weights(children) == [i \in 1..Len(children) |-> children[i].size]

RECURSIVE NodeIds(_)
NodeIds(node) ==
    {node.id} \cup
    UNION {NodeIds(node.data.children[i].node) : i \in 1..Len(node.data.children)}

RECURSIVE LeafIds(_)
LeafIds(node) ==
    IF node.data.kind = "Void" THEN {node.id}
    ELSE UNION {LeafIds(node.data.children[i].node) : i \in 1..Len(node.data.children)}

RECURSIVE SpanNodes(_)
SpanNodes(node) ==
    IF node.data.kind = "Void" THEN {}
    ELSE {node} \cup
         UNION {SpanNodes(node.data.children[i].node) : i \in 1..Len(node.data.children)}

\* find_by_id_internal: the path is pushed on entry and popped when the node
\* itself matches or nothing below it does; a matching child returns at once,
\* so the path ends with the id of the parent of the node found.
RECURSIVE find_by_id_internal(_, _, _)
RECURSIVE find_in_children(_, _, _, _, _)
find_in_children(children, i, id, pushed, popped) ==
    IF i > Len(children) THEN [found |-> FALSE, path |-> popped]
    ELSE IF children[i].node.id = id THEN [found |-> TRUE, path |-> pushed]
    ELSE LET r == find_by_id_internal(children[i].node, id, pushed)
         IN  IF r.found THEN r
             ELSE find_in_children(children, i + 1, id, pushed, popped)

find_by_id_internal(node, id, path) ==
    IF node.id = id THEN [found |-> TRUE, path |-> path]
    ELSE IF node.data.kind = "Span"
         THEN find_in_children(node.data.children, 1, id, Append(path, node.id), path)
         ELSE [found |-> FALSE, path |-> path]

find_by_id(root, id) == find_by_id_internal(root, id, <<>>)

\* The node find_by_id hands out as &mut Node.
RECURSIVE NodeAt(_, _)
NodeAt(node, id) ==
    IF node.id = id THEN node
    ELSE LET ch == node.data.children
             hit == {i \in 1..Len(ch) : find_by_id(ch[i].node, id).found}
         IN  NodeAt(ch[CHOOSE i \in hit : \A j \in hit : i <= j].node, id)

\* An assignment through that &mut Node: the node found is replaced in place.
RECURSIVE AssignAt(_, _, _)
AssignAt(node, id, new) ==
    IF node.id = id THEN new
    ELSE LET ch == node.data.children
             hit == {i \in 1..Len(ch) : find_by_id(ch[i].node, id).found}
         IN  IF hit = {} THEN node
             ELSE LET k == CHOOSE i \in hit : \A j \in hit : i <= j
                  IN  [node EXCEPT !.data.children[k].node = AssignAt(ch[k].node, id, new)]

---------------------------------------------------------------------------
(* layout.rs: get_span_dimensions.                                         *)

\* (p as f64 * (w / total)).floor() in IEEE-754 doubles.  The quotient w/total
\* is rounded before the product, so where p*w/total is an integer the product
\* can land just below it and floor() loses one.  These are all the triples
\* <<p, w, total>> with p <= 200, w <= 10, total <= 40 where that happens;
\* everywhere else in that range the result is the exact floor.  With w = 1
\* and total <= 50 the only further ones are the multiples of 49 over 49.
F64RoundsBelow ==
    {<<49, 1, 49>>, <<98, 1, 49>>, <<147, 1, 49>>, <<196, 1, 49>>,
     <<90, 7, 10>>, <<170, 7, 10>>, <<180, 7, 10>>, <<55, 3, 11>>,
     <<99, 3, 11>>, <<110, 3, 11>>, <<187, 3, 11>>, <<198, 3, 11>>,
     <<55, 6, 11>>, <<99, 6, 11>>, <<110, 6, 11>>, <<187, 6, 11>>,
     <<198, 6, 11>>, <<180, 7, 20>>, <<110, 3, 22>>, <<198, 3, 22>>,
     <<55, 6, 22>>, <<99, 6, 22>>, <<110, 6, 22>>, <<187, 6, 22>>,
     <<198, 6, 22>>, <<55, 9, 33>>, <<99, 9, 33>>, <<110, 9, 33>>,
     <<187, 9, 33>>, <<198, 9, 33>>, <<105, 9, 35>>, <<175, 9, 35>>,
     <<117, 5, 39>>, <<195, 5, 39>>, <<117, 10, 39>>, <<195, 10, 39>>}

f64_floor_mul(p, w, total) ==
    ((p * w) \div total) - (IF <<p, w, total>> \in F64RoundsBelow THEN 1 ELSE 0)

\* min_by_key over the sizes: the first index holding the minimum.
min_by_key(sizes) ==
    CHOOSE i \in 1..Len(sizes) :
        /\ \A j \in 1..Len(sizes) : sizes[i] <= sizes[j]
        /\ \A j \in 1..(i - 1) : sizes[j] > sizes[i]

\* The while loop handing the remainder out one unit at a time (lines 40-65).
distribute_nothing(sizes, remaining_size) == sizes
RECURSIVE distribute(_, _)
distribute(sizes, remaining_size) ==
    IF remaining_size > 0 /\ Len(sizes) > 0
    THEN distribute([sizes EXCEPT ![min_by_key(sizes)] = @ + 1], remaining_size - 1)
    ELSE sizes

\* The floor shares along the span's axis (lines 17-39).
floor_shares(span, extent) ==
    LET total == SumSeq(Weights(span.children))
    IN  [i \in 1..Len(span.children) |->
            f64_floor_mul(extent, span.children[i].size, total)]

\* The extents of the children along the span's axis after the remainder is
\* handed out.
axis_sizes(span, extent) ==
    LET shares == floor_shares(span, extent)
    IN  distribute(shares, extent - SumSeq(shares))

\* sizes[index] for every child (lines 22-65).
child_sizes(span, parent_dimensions) ==
    IF span.direction = "Horizontal"
    THEN LET xs == axis_sizes(span, parent_dimensions.size.x)
         IN  [i \in 1..Len(span.children) |-> Vector2(xs[i], parent_dimensions.size.y)]
    ELSE LET ys == axis_sizes(span, parent_dimensions.size.y)
         IN  [i \in 1..Len(span.children) |-> Vector2(parent_dimensions.size.x, ys[i])]

\* The rectangle each child is searched in (lines 67-84): children follow
\* one another along the axis, starting at the parent's position.
child_position_at_parent(span, sizes, parent_dimensions, index) ==
    parent_dimensions.position
RECURSIVE child_position(_, _, _, _)
child_position(span, sizes, parent_dimensions, index) ==
    IF index = 1 THEN parent_dimensions.position
    ELSE LET last_position == child_position(span, sizes, parent_dimensions, index - 1)
             last_size == sizes[index - 1]
         IN  IF span.direction = "Horizontal"
             THEN Vector2(last_position.x + last_size.x, last_position.y)
             ELSE Vector2(last_position.x, last_position.y + last_size.y)

child_rects(span, parent_dimensions) ==
    LET sizes == child_sizes(span, parent_dimensions)
    IN  [i \in 1..Len(span.children) |->
            Rect(child_position(span, sizes, parent_dimensions, i), sizes[i])]

RECURSIVE get_span_dimensions(_, _, _)
search_first_child(children, rects, index, span_id) ==
    IF children = <<>> THEN NoneRect
    ELSE get_span_dimensions(children[1].node, span_id, rects[1])
RECURSIVE search_children(_, _, _, _)
search_children(children, rects, index, span_id) ==
    IF index > Len(children) THEN NoneRect
    ELSE LET sub_dim == get_span_dimensions(children[index].node, span_id, rects[index])
         IN  IF sub_dim.some THEN sub_dim
             ELSE search_children(children, rects, index + 1, span_id)

get_span_dimensions(node, span_id, parent_dimensions) ==
    IF node.id = span_id THEN Some(parent_dimensions)
    ELSE IF node.data.kind = "Span"
         THEN search_children(node.data.children,
                              child_rects(node.data, parent_dimensions), 1, span_id)
         ELSE NoneRect

\* span.rs: get_root_dimensions.
get_root_dimensions(sz) == Rect(Vector2_null, sz)

\* state.rs: State::get_span_dimensions.
State_get_span_dimensions(root, sz, span_id) ==
    IF ~root.some THEN NoneRect
    ELSE get_span_dimensions(root.val, span_id, Rect(Vector2_null, sz))

---------------------------------------------------------------------------
(* spawn.rs: remove_node, create_span.  Both return the tree they leave    *)
(* behind together with their Result.                                      *)

Err_empties_tree(root) == [root |-> Node(root.id, Void), ok |-> FALSE, value |-> NoneId]
Err(root) == [root |-> root, ok |-> FALSE, value |-> NoneId]
Ok(root, value) == [root |-> root, ok |-> TRUE, value |-> value]

\* The position of the child with this id in a children list, 0 if none.
child_index(children, id) ==
    LET hit == {i \in 1..Len(children) : children[i].node.id = id}
    IN  IF hit = {} THEN 0 ELSE CHOOSE i \in hit : \A j \in hit : i <= j

\* Vec::remove(index).
Vec_remove(s, index) == [i \in 1..(Len(s) - 1) |-> IF i < index THEN s[i] ELSE s[i + 1]]

RECURSIVE remove_node(_, _)

\* Lines 274-277: removing the root leaves a Void root and no active id.
remove_root_keeps_active(root) == Ok(Node(root.id, Void), Some(root.id))
remove_root(root) == Ok(Node(root.id, Void), NoneId)

\* Lines 309-313: the id of the last child left in the parent.
first_remaining(children) == children[1].node.id
last_remaining(children) == children[Len(children)].node.id

\* Lines 308-318: what follows span.children.remove(index); `removed` is the
\* tree without the child and `children` what the parent keeps.
after_remove_no_collapse(removed, parent, children) ==
    Ok(removed, Some(IF children # <<>> THEN last_remaining(children) ELSE parent.id))
after_remove(removed, parent, children) ==
    IF children # <<>>
    THEN Ok(removed, Some(last_remaining(children)))
    ELSE remove_node(removed, parent.id)

remove_node(root, id) ==
    IF root.id = id THEN remove_root(root)
    ELSE LET result == find_by_id(root, id)
         IN
         IF ~result.found THEN Err(root)
         ELSE IF result.path = <<>> THEN Err(root)
         ELSE LET parent_id == result.path[Len(result.path)]
                  parent == NodeAt(root, parent_id)
                  index == child_index(parent.data.children, id)
              IN
              IF ~find_by_id(root, parent_id).found THEN Err(root)
              ELSE IF parent.data.kind # "Span" THEN Err(root)
              ELSE IF index = 0 THEN Err(root)
              ELSE LET children == Vec_remove(parent.data.children, index)
                   IN  after_remove(AssignAt(root, parent_id,
                                             [parent EXCEPT !.data.children = children]),
                                    parent, children)

\* The test of lines 109-118 and 145-154: `active as f64 > parent as f64 *
\* (size_of_new_child / new_total)`, with avg = total / len.
nests_reversed(span, parent_extent, active_extent) ==
    LET total == SumSeq(Weights(span.children))
        avg == total \div Len(span.children)
    IN  active_extent * (total + avg) < parent_extent * avg
nests(span, parent_extent, active_extent) ==
    LET total == SumSeq(Weights(span.children))
        avg == total \div Len(span.children)
        new_total == total + avg
    IN  IF <<parent_extent, avg, new_total>> \in F64RoundsBelow
        THEN active_extent * new_total >= parent_extent * avg
        ELSE active_extent * new_total > parent_extent * avg

\* Lines 55-60: the direction of the span that replaces a single-leaf root.
root_direction_wide_or_square(root_rect) ==
    IF root_rect.size.x >= root_rect.size.y THEN "Horizontal" ELSE "Vertical"
root_direction(root_rect) ==
    IF root_rect.size.x > root_rect.size.y THEN "Horizontal" ELSE "Vertical"

\* create_span on the tree `root` (an Option<Node>) after the active id was
\* loaded and `new_id` taken from the counter (lines 18-30); `container_id`
\* is what the counter hands out next, `container` tells whether it was
\* taken.
create_span_ids(root, active, new_id, container_id, sz) ==
    LET root_rect == get_root_dimensions(sz)
        new_child == SpanChild(Node(new_id, Void), 1)
        fail == [root |-> root, ok |-> FALSE, value |-> NoneId, container |-> FALSE]
    IN
    IF ~root.some
    THEN [root |-> Some(Node(new_id, Void)), ok |-> TRUE, value |-> Some(new_id),
          container |-> FALSE]
    ELSE IF root.val.data.kind = "Void"
    THEN LET direction == root_direction(root_rect)
             span == Span(direction, <<SpanChild(root.val, 1), new_child>>)
         IN  [root |-> Some(Node(container_id, span)), ok |-> TRUE,
              value |-> Some(new_id), container |-> TRUE]
    ELSE LET active_sizes == get_span_dimensions(root.val, active, root_rect)
             result == find_by_id(root.val, active)
         IN
         IF ~active_sizes.some \/ ~result.found \/ result.path = <<>> THEN fail
         ELSE LET parent_id == result.path[Len(result.path)]
                  parent_sizes == get_span_dimensions(root.val, parent_id, root_rect)
                  parent_clone == NodeAt(root.val, parent_id)
                  span == parent_clone.data
              IN
              IF ~parent_sizes.some \/ span.kind = "Void" THEN fail
              ELSE IF IF span.direction = "Horizontal"
                      THEN nests(span, parent_sizes.val.size.x, active_sizes.val.size.y)
                      ELSE nests(span, parent_sizes.val.size.y, active_sizes.val.size.x)
              THEN LET active_node == NodeAt(root.val, active)
                       new_span == Span(IF span.direction = "Horizontal"
                                        THEN "Vertical" ELSE "Horizontal",
                                        <<SpanChild(active_node, 1), new_child>>)
                   IN  [root |-> Some(AssignAt(root.val, active,
                                               Node(container_id, new_span))),
                        ok |-> TRUE, value |-> Some(new_id), container |-> TRUE]
              ELSE LET total == SumSeq(Weights(span.children))
                       avg == total \div Len(span.children)
                       pushed == Append(span.children, SpanChild(Node(new_id, Void), avg))
                   IN  [root |-> Some(AssignAt(root.val, parent_id,
                                      [parent_clone EXCEPT !.data.children = pushed])),
                        ok |-> TRUE, value |-> Some(new_id), container |-> FALSE]

\* create_span as one step, with the ids the counter hands out; `counter` is
\* the counter after the call.
create_span(root, active, counter, sz) ==
    LET r == create_span_ids(root, active, counter + 1, counter + 2, sz)
    IN  [root |-> r.root, ok |-> r.ok, value |-> r.value,
         counter |-> IF r.container THEN counter + 2 ELSE counter + 1]

---------------------------------------------------------------------------
(* The layout tree as a state machine.                                     *)

Call(op, arg, ok, value) == [op |-> op, arg |-> arg, ok |-> ok, value |-> value]

InitTree ==
    /\ root_node = NoneNode
    /\ active_id = 0
    /\ span_id_counter = 0
    /\ size = Vector2_null
    /\ exited = FALSE
    /\ tasks = {}
    /\ ret = Call("new", 0, TRUE, NoneId)

InitLayoutIdle ==
    /\ l_node = Node(0, Void)
    /\ l_rect = Rect(Vector2_null, Vector2_null)
    /\ l_out = <<>>

InitCanvasIdle ==
    /\ canvas = [cells |-> <<>>, size |-> Vector2_null]
    /\ views = <<>>
    /\ c_ret = [op |-> "new", inside |-> TRUE]
    /\ overflow_checks = FALSE
    /\ panicked = FALSE

\* main.rs, State::new: last_canvas is Canvas::new(Vector2::new(0, 0)), and
\* nothing has been written.
InitDraw ==
    /\ last_canvas = [cells |-> <<>>, size |-> Vector2_null]
    /\ stdout = <<>>
    /\ written_frame = [cells |-> <<>>, size |-> Vector2_null]
    /\ write_result = "Ok"

\* state.rs, State::new: the draw lock is free, the draw channel is empty and
\* canvas_1 is the current buffer; the draw tasks wait for their triggers.
InitSched ==
    /\ draw_lock = "free"
    /\ draw_channel = 0
    /\ drawer = [d \in {"event", "tick"} |-> "idle"]
    /\ trigger = [source |-> "none", outcome |-> "none"]
    /\ canvas_toggle = FALSE

\* state.rs, State::new: no process, no pane task.
InitPanes ==
    /\ processes = {}
    /\ pane_task = [p \in 1..MaxId |-> "none"]
    /\ redrawn = {}

\* tty_windows.rs 166-208, spawn_interactive_process: both copies of the
\* WinPTY share is_closed = false; no handle has been closed.
Handles == <<"input_read", "output_write", "input_write", "output_read",
             "hProcess", "hThread">>
Releasers == {"watcher", "pane"}
InitPty ==
    /\ is_closed = FALSE
    /\ is_closed_lock = "free"
    /\ releaser = [c \in Releasers |-> "idle"]
    /\ release_calls = [c \in Releasers |-> 0]
    /\ handle_closes = [h \in {"hpcon"} \cup {Handles[i] : i \in 1..Len(Handles)} |-> 0]
    /\ release_ret = [caller |-> "none", ok |-> TRUE, closed |-> 0]

\* startup.rs 65-83, init_screen: the terminal is in raw mode on the
\* alternate screen; nothing else has been written, no lock is held.
InitExit ==
    /\ root_guard = "free"
    /\ exit_pc = "none"
    /\ raw_mode = TRUE
    /\ stdout_buffer = <<>>
    /\ draw_pc = "idle"
    /\ new_frame = "none"
    /\ tty = <<>>

\* No create_span call is under way.
Creators == {"first", "second"}
NotCreating == [pc |-> "idle", active |-> 0, new_id |-> 0, root_rect |-> Rect(Vector2_null, Vector2_null)]
NotKilling == [pc |-> "idle", span_id |-> 0, new_active |-> NoneId, overlapped |-> FALSE]
InitRace ==
    /\ creating = [c \in Creators |-> NotCreating]
    /\ killing = NotKilling

\* No pane has an emulator or a PTY, and nothing has been drawn.
NotRendered ==
    [drawn |-> FALSE, fresh |-> FALSE, resized |-> {}, failed |-> {}, composited |-> {},
     written |-> FALSE, cursor |-> [some |-> FALSE, val |-> [x |-> 0, y |-> 0]],
     offset |-> [x |-> 0, y |-> 0], visible |-> FALSE]
InitRender ==
    /\ emulator_size = [p \in 1..MaxId |-> [x |-> 0, y |-> 0]]
    /\ pty_size = [p \in 1..MaxId |-> [x |-> 0, y |-> 0]]
    /\ rendered = NotRendered

\* state.rs, State::new: no lock is held; no task has started.  The locks of
\* State carry the pane 0, those of a Process the id of its pane.
LockPanes == 1..MaxLockPanes
Locks ==
    ({"stdout", "root_node", "processes", "current_mouse_position"} \X {0})
        \cup ({"process", "terminal_info", "terminal", "stdin"} \X LockPanes)
LockTasks == {"draw", "mouse", "pane", "kill", "create"}
Idle == [pc |-> 0, pane |-> 0, visible |-> FALSE]
InitLocks ==
    /\ held = [l \in Locks |-> {}]
    /\ lock_at = [t \in LockTasks |-> Idle]
    /\ version = [budget |-> 0, state |-> 0, read |-> 0, drawn |-> 0]

\* No terminal emulator and no frame canvas exist yet.
NoCommand == [kind |-> "none", text |-> "", parameter |-> NoneId, pending_before |-> FALSE]
InitTermIdle ==
    /\ info = [canvas |-> [cells |-> <<>>, size |-> Vector2_null], cursor |-> Vector2_null,
               current_style |-> 0, is_wrap_state_pending |-> FALSE]
    /\ command = NoCommand
    /\ screen = [cells |-> <<>>, size |-> Vector2_null]
    /\ screen_ret = [op |-> "new", position |-> Vector2_null, size |-> Vector2_null, cell |-> " "]

\* size.rs: update_size stores what the terminal reports.
update_size ==
    /\ ~exited
    /\ \E s \in TermSizes : size' = Vector2(s[1], s[2])
    /\ ret' = Call("update_size", 0, TRUE, NoneId)
    /\ UNCHANGED <<root_node, active_id, span_id_counter, exited, tasks>>

\* spawn.rs: create_span, called by create_process; the pane task is spawned
\* when it succeeds.  The active id and the counter move before the tree is
\* looked at, so they move also when the call fails.
CreateSpan ==
    /\ ~exited
    /\ span_id_counter + 2 <= MaxId
    /\ LET r == create_span(root_node, active_id, span_id_counter, size)
       IN  /\ active_id' = span_id_counter + 1
           /\ span_id_counter' = r.counter
           /\ root_node' = r.root
           /\ tasks' = IF r.ok THEN tasks \cup {r.value.val} ELSE tasks
           /\ ret' = Call("create_span", active_id, r.ok, r.value)
    /\ UNCHANGED <<size, exited>>

\* state.rs: set_active_span, called on a mouse press inside the rectangle of
\* a pane that has a process (input.rs lines 238-251).
SetActiveSpan(id) ==
    /\ ~exited
    /\ id \in tasks
    /\ State_get_span_dimensions(root_node, size, id).some
    /\ Rect_contains(State_get_span_dimensions(root_node, size, id).val,
                     State_get_span_dimensions(root_node, size, id).val.position)
    /\ active_id' = id
    /\ ret' = Call("set_active_span", id, TRUE, NoneId)
    /\ UNCHANGED <<root_node, span_id_counter, size, exited, tasks>>

\* spawn.rs: remove_node_from_state, called by kill_span with the active id
\* (kill_active_span) or with the span id of a pane task that ended.
RemoveNodeFromState(span_id) ==
    /\ ~exited
    /\ span_id \in tasks \cup {active_id}
    /\ IF ~root_node.some
       THEN /\ ret' = Call("remove_node_from_state", span_id, TRUE, NoneId)
            /\ UNCHANGED <<root_node, active_id, exited>>
       ELSE LET r == remove_node(root_node.val, span_id)
            IN  /\ root_node' = Some(r.root)
                /\ active_id' = IF r.ok /\ r.value.some THEN r.value.val ELSE active_id
                /\ exited' = (r.ok /\ ~r.value.some)
                /\ ret' = Call("remove_node_from_state", span_id, r.ok, r.value)
    /\ UNCHANGED <<span_id_counter, size, tasks>>

Next ==
    \/ update_size /\ UNCHANGED <<layoutVars, canvasVars, drawVars, schedVars, paneVars, ptyVars, exitVars, raceVars, renderVars, termVars, lockVars>>
    \/ CreateSpan /\ UNCHANGED <<layoutVars, canvasVars, drawVars, schedVars, paneVars, ptyVars, exitVars, raceVars, renderVars, termVars, lockVars>>
    \/ \E id \in 1..MaxId : SetActiveSpan(id) /\ UNCHANGED <<layoutVars, canvasVars, drawVars, schedVars, paneVars, ptyVars, exitVars, raceVars, renderVars, termVars, lockVars>>
    \/ \E id \in 0..MaxId : RemoveNodeFromState(id) /\ UNCHANGED <<layoutVars, canvasVars, drawVars, schedVars, paneVars, ptyVars, exitVars, raceVars, renderVars, termVars, lockVars>>

Init == InitTree /\ InitLayoutIdle /\ InitCanvasIdle /\ InitDraw /\ InitSched /\ InitPanes /\ InitPty /\ InitExit /\ InitRace /\ InitRender /\ InitLocks /\ InitTermIdle

Spec == Init /\ [][Next]_vars

---------------------------------------------------------------------------
(* Properties of the layout tree.                                          *)

RECURSIVE SumOver(_, _)
SumOver(S, f) ==
    IF S = {} THEN 0
    ELSE LET e == CHOOSE x \in S : TRUE IN f[e] + SumOver(S \ {e}, f)

Area(r) == r.size.x * r.size.y

RectInside(r, outer) ==
    /\ r.position.x >= outer.position.x
    /\ r.position.y >= outer.position.y
    /\ r.position.x + r.size.x <= outer.position.x + outer.size.x
    /\ r.position.y + r.size.y <= outer.position.y + outer.size.y

RectsOverlap(a, b) ==
    /\ Area(a) > 0
    /\ Area(b) > 0
    /\ a.position.x < b.position.x + b.size.x
    /\ b.position.x < a.position.x + a.size.x
    /\ a.position.y < b.position.y + b.size.y
    /\ b.position.y < a.position.y + a.size.y

\* Root rectangles the layout is asked for: the terminal's, and two that do
\* not start at the origin.
RootRects ==
    {get_root_dimensions(size),
     Rect(Vector2(3, 1), Vector2(10, 4)),
     Rect(Vector2(-2, 5), Vector2(1, 8))}

\* The leaf rectangles tile `root_rect`: each lies inside it, no two overlap,
\* and their areas add up to its area.
LeavesTile(root, root_rect) ==
    LET leaves == LeafIds(root)
        dim == [id \in leaves |-> get_span_dimensions(root, id, root_rect)]
    IN  /\ \A id \in leaves : dim[id].some /\ RectInside(dim[id].val, root_rect)
        /\ \A a, b \in leaves : a # b => ~RectsOverlap(dim[a].val, dim[b].val)
        /\ SumOver(leaves, [id \in leaves |-> Area(dim[id].val)]) = Area(root_rect)

\* C2: for every tree create_span and remove_node produce and every root
\* rectangle, the rectangles get_span_dimensions returns for the leaf panes
\* are pairwise non-overlapping and their union is exactly the root rectangle.
C2_LeavesTileRoot ==
    root_node.some => \A r \in RootRects : LeavesTile(root_node.val, r)

\* A nested tree of three panes on the 80x24 terminal, one span of which has a
\* remainder to hand out.
C2_Witness ==
    /\ root_node.some
    /\ size = Vector2(80, 24)
    /\ Cardinality(LeafIds(root_node.val)) >= 3
    /\ Cardinality(SpanNodes(root_node.val)) >= 2
    /\ \E s \in SpanNodes(root_node.val) : Len(s.data.children) = 3

\* C3: get_span_dimensions returns None if and only if no node (leaf or span)
\* with that id occurs in the tree; for every id that occurs it returns a
\* rectangle.
C3_NoneIffAbsent ==
    \A id \in 0..(MaxId + 1) :
        /\ State_get_span_dimensions(root_node, size, id).some
               <=> (root_node.some /\ id \in NodeIds(root_node.val))
        /\ root_node.some =>
               \A r \in RootRects :
                   get_span_dimensions(root_node.val, id, r).some
                       <=> id \in NodeIds(root_node.val)

\* A tree with a nested span, whose ids are found, and ids that are absent
\* because their nodes were removed.
C3_Witness ==
    /\ root_node.some
    /\ Cardinality(SpanNodes(root_node.val)) >= 2
    /\ \E id \in 1..span_id_counter : id \notin NodeIds(root_node.val)
    /\ \A id \in NodeIds(root_node.val) :
           State_get_span_dimensions(root_node, size, id).some

IsCall(op) == ret'.op = op

TwoPanes == Node(3, Span("Horizontal", <<SpanChild(Leaf(1), 1), SpanChild(Leaf(2), 1)>>))
Dim(id) == State_get_span_dimensions(root_node, size, id)
Dim_next(id) == State_get_span_dimensions(root_node', size', id)
Rect4(x, y, w, h) == Some(Rect(Vector2(x, y), Vector2(w, h)))

\* The first two steps of the scenario on the 80x24 terminal: A becomes the
\* root; with A active the root becomes a Horizontal span of A and B, 40x24
\* each.
C4_FirstTwo ==
    /\ ~root_node.some => root_node' = Some(Leaf(span_id_counter + 1))
    /\ root_node = Some(Leaf(1)) =>
           /\ root_node' = Some(TwoPanes)
           /\ Dim_next(1) = Rect4(0, 0, 40, 24)
           /\ Dim_next(2) = Rect4(40, 0, 40, 24)

\* C4 as stated: the third create_span, with B active, nests a Vertical span
\* in B's slot holding B (top) and C (bottom), 40x12 each, and the root keeps
\* two children.
C4_Original ==
    [][(IsCall("create_span") /\ size = Vector2(80, 24)) =>
        /\ C4_FirstTwo
        /\ (root_node = Some(TwoPanes) /\ active_id = 2 /\ span_id_counter = 3) =>
               /\ root_node' = Some(Node(3, Span("Horizontal",
                      <<SpanChild(Leaf(1), 1),
                        SpanChild(Node(5, Span("Vertical",
                            <<SpanChild(Leaf(2), 1), SpanChild(Leaf(4), 1)>>)), 1)>>)))
               /\ Dim_next(2) = Rect4(40, 0, 40, 12)
               /\ Dim_next(4) = Rect4(40, 12, 40, 12)]_vars

\* C4 amended: the third create_span appends C to the root span, because B's
\* height 24 does not exceed the projected width 80/3; the root then has the
\* three children A, B, C, 27, 27 and 26 columns wide and 24 rows high.
C4_Amended ==
    [][(IsCall("create_span") /\ size = Vector2(80, 24)) =>
        /\ C4_FirstTwo
        /\ (root_node = Some(TwoPanes) /\ active_id = 2 /\ span_id_counter = 3) =>
               /\ root_node' = Some(Node(3, Span("Horizontal",
                      <<SpanChild(Leaf(1), 1), SpanChild(Leaf(2), 1),
                        SpanChild(Leaf(4), 1)>>)))
               /\ active_id' = 4
               /\ Dim_next(1) = Rect4(0, 0, 27, 24)
               /\ Dim_next(2) = Rect4(27, 0, 27, 24)
               /\ Dim_next(4) = Rect4(54, 0, 26, 24)]_vars

\* The state after the three calls of the scenario.
C4_Witness ==
    /\ size = Vector2(80, 24)
    /\ ret = Call("create_span", 2, TRUE, Some(4))
    /\ span_id_counter = 4
    /\ root_node.some
    /\ LeafIds(root_node.val) = {1, 2, 4}

\* The span whose children list holds the node `id`.
ParentOf(root, id) ==
    CHOOSE s \in SpanNodes(root) :
        \E i \in 1..Len(s.data.children) : s.data.children[i].node.id = id

SiblingIds(root, id) ==
    SelectSeq([i \in 1..Len(ParentOf(root, id).data.children) |->
                   ParentOf(root, id).data.children[i].node.id],
              LAMBDA c : c # id)

\* C5: when remove_node removes a non-root node whose parent keeps at least
\* one child, it returns the id of the last remaining child of that parent
\* and remove_node_from_state stores it as the active id; removing one of two
\* sibling panes makes the other one active.
C5_LastSiblingBecomesActive ==
    [][(/\ IsCall("remove_node_from_state")
        /\ root_node.some
        /\ ret'.arg \in NodeIds(root_node.val) \ {root_node.val.id}
        /\ Len(SiblingIds(root_node.val, ret'.arg)) >= 1) =>
            LET siblings == SiblingIds(root_node.val, ret'.arg)
                last == siblings[Len(siblings)]
            IN  /\ ret'.ok
                /\ ret'.value = Some(last)
                /\ active_id' = last
                /\ ~exited'
                /\ NodeIds(root_node'.val) =
                       NodeIds(root_node.val) \ NodeIds(NodeAt(root_node.val, ret'.arg))]_vars

\* A removal from a span of three children has made the last of the two left
\* active.
C5_Witness ==
    /\ ret.op = "remove_node_from_state"
    /\ ret.ok
    /\ ret.value.some
    /\ active_id = ret.value.val
    /\ root_node.some
    /\ ret.arg \notin NodeIds(root_node.val)
    /\ LET s == ParentOf(root_node.val, active_id).data.children
       IN  Len(s) = 2 /\ s[2].node.id = active_id

\* C6: when the only remaining pane is removed, remove_node returns no new
\* active id and remove_node_from_state invokes exit; the multiplexer never
\* keeps running with a tree that contains zero panes.
C6_LastPaneExits ==
    /\ []((root_node.some /\ ~exited) => LeafIds(root_node.val) # {})
    /\ [][(/\ IsCall("remove_node_from_state")
           /\ root_node.some
           /\ LeafIds(root_node.val) = {ret'.arg}) =>
               /\ ret'.ok
               /\ ~ret'.value.some
               /\ exited']_vars

\* The last pane, the only child left in the root span, was removed and the
\* multiplexer has exited.
C6_Witness ==
    /\ exited
    /\ ret.op = "remove_node_from_state"
    /\ ~ret.value.some
    /\ root_node = Some(Leaf(3))
    /\ ret.arg # 3

\* C7: as long as the tree has not been emptied, no Span node has zero
\* children: a span emptied by a removal is itself removed from its parent,
\* up to the root.
C7_NoEmptySpan ==
    (root_node.some /\ ~exited) =>
        \A s \in SpanNodes(root_node.val) : Len(s.data.children) >= 1

\* Pane 2 was the last child of the nested span 5, which went with it: the
\* root span is left with pane 1.
C7_Witness ==
    /\ ~exited
    /\ ret = Call("remove_node_from_state", 2, TRUE, Some(1))
    /\ span_id_counter >= 5
    /\ root_node = Some(Node(3, Span("Vertical", <<SpanChild(Leaf(1), 1)>>)))

\* Every weight create_span stores is 1.0, so the averages it takes are exact.
WeightsAreOne ==
    root_node.some =>
        \A s \in SpanNodes(root_node.val) :
            \A i \in 1..Len(s.data.children) : s.data.children[i].size = 1

---------------------------------------------------------------------------
(* get_span_dimensions on one span with weighted children.                 *)

\* Extents of the parent rectangle: the small ones, and 55, where the double
\* product 55 * (3/11) falls below 15.
Extents == (0..MaxExtent) \cup {55}
Positions == {Vector2(0, 0), Vector2(-3, 2)}
WeightVectors == UNION {[1..n -> 1..MaxWeight] : n \in 1..MaxChildren}

InitLayout ==
    /\ \E d \in {"Horizontal", "Vertical"}, w \in WeightVectors :
           l_node = Node(0, Span(d, [i \in 1..Len(w) |-> SpanChild(Leaf(i), w[i])]))
    /\ \E p \in Positions, x \in Extents, y \in Extents :
           l_rect = Rect(p, Vector2(x, y))
    /\ l_out = <<>>

\* get_span_dimensions is asked for every child of the span.
ApplyLayout ==
    /\ l_out = <<>>
    /\ l_out' = [i \in 1..Len(l_node.data.children) |->
                    get_span_dimensions(l_node, i, l_rect)]
    /\ UNCHANGED <<l_node, l_rect, treeVars, canvasVars, drawVars, schedVars, paneVars, ptyVars, exitVars, raceVars, renderVars, lockVars, termVars>>

NextLayout == ApplyLayout

LayoutInit == InitTree /\ InitLayout /\ InitCanvasIdle /\ InitDraw /\ InitSched /\ InitPanes /\ InitPty /\ InitExit /\ InitRace /\ InitRender /\ InitLocks /\ InitTermIdle
SpecLayout == LayoutInit /\ [][NextLayout]_vars

AxisExtent(sz) == IF l_node.data.direction = "Horizontal" THEN sz.x ELSE sz.y

\* C1: for every span with at least one child, every parent rectangle of
\* non-negative size and every vector of positive weights, the extents the
\* children get along the span's axis sum to exactly the parent's extent.
C1_ExtentsSumToParent ==
    l_out # <<>> =>
        /\ \A i \in 1..Len(l_out) : l_out[i].some /\ AxisExtent(l_out[i].val.size) >= 0
        /\ SumSeq([i \in 1..Len(l_out) |-> AxisExtent(l_out[i].val.size)])
               = AxisExtent(l_rect.size)

\* Width 55 split by the weights 3, 4, 4: the floor shares are 14, 20, 20 (the
\* double product for 3/11 falls below 15) and the remainder goes to the first.
C1_Witness ==
    /\ l_out # <<>>
    /\ l_node.data.direction = "Horizontal"
    /\ Weights(l_node.data.children) = <<3, 4, 4>>
    /\ l_rect.size.x = 55
    /\ floor_shares(l_node.data, 55) = <<14, 20, 20>>
    /\ [i \in 1..3 |-> l_out[i].val.size.x] = <<15, 20, 20>>

---------------------------------------------------------------------------
(* renterm: Cell, Canvas (canvas.rs), SurfaceView (view.rs).               *)

Abs(n) == IF n < 0 THEN -n ELSE n

\* Cell::default() is a space; "#" stands for any other cell.
Cell_default == " "
Cells == {" ", "#"}

Repeat(cell, n) == [i \in 1..n |-> cell]

Canvas_new_filled(sz, cell) == [cells |-> Repeat(cell, Abs(sz.x * sz.y)), size |-> sz]
Canvas_new(sz) == Canvas_new_filled(sz, Cell_default)

Canvas_get_cell_unchecked_width(c, position) ==
    IF position.x < 0 \/ position.y < 0 THEN Cell_default
    ELSE IF Len(c.cells) <= position.y * c.size.x + position.x THEN Cell_default
    ELSE c.cells[position.y * c.size.x + position.x + 1]
Canvas_get_cell(c, position) ==
    IF position.x < 0 \/ position.y < 0 THEN Cell_default
    ELSE IF position.x >= c.size.x \/ position.y >= c.size.y THEN Cell_default
    ELSE IF Len(c.cells) <= position.y * c.size.x + position.x THEN Cell_default
    ELSE c.cells[position.y * c.size.x + position.x + 1]

Canvas_set_cell(c, position, cell) ==
    IF position.x < 0 \/ position.y < 0 THEN c
    ELSE IF position.x >= c.size.x \/ position.y >= c.size.y THEN c
    ELSE IF Len(c.cells) <= position.y * c.size.x + position.x THEN c
    ELSE [c EXCEPT !.cells[position.y * c.size.x + position.x + 1] = cell]

\* set_size, line 72: `y * old_size.x.as_() + x` is usize arithmetic, and a
\* negative old_size.x casts to 2^64 + old_size.x.  The product or the sum
\* then passes 2^64 for these y and x: a build with overflow checks panics
\* there, one without wraps.
index_overflows(y, old_x, x) == old_x < 0 /\ (y >= 2 \/ (y = 1 /\ x >= -old_x))

\* The loops of set_size (lines 70-79), cell k of rows * cols.  A wrapped index
\* is y * old_size.x + x when that is not negative and beyond every Vec
\* otherwise.
RECURSIVE copy_cells(_, _, _, _, _, _, _)
copy_cells(c, old_cells, old_size, rows, cols, k, checked) ==
    IF k >= rows * cols THEN [canvas |-> c, panicked |-> FALSE]
    ELSE LET y == k \div cols
             x == k % cols
             index == y * old_size.x + x
         IN  IF checked /\ index_overflows(y, old_size.x, x)
             THEN [canvas |-> c, panicked |-> TRUE]
             ELSE IF index < 0 \/ index >= Len(old_cells)
             THEN copy_cells(c, old_cells, old_size, rows, cols, k + 1, checked)
             ELSE copy_cells(Canvas_set_cell(c, Vector2(x, y), old_cells[index + 1]),
                             old_cells, old_size, rows, cols, k + 1, checked)

Canvas_set_size_keeps_cells(c, sz, checked) ==
    [canvas |-> [c EXCEPT !.size = sz], panicked |-> FALSE]
Canvas_set_size(c, sz, checked) ==
    IF c.size = sz THEN [canvas |-> c, panicked |-> FALSE]
    ELSE copy_cells(Canvas_new(sz), c.cells, c.size,
                    Abs(Min(sz.y, c.size.y)), Abs(Min(sz.x, c.size.x)), 0, checked)

\* view.rs: SurfaceView.  views[k] is the rect of the view at level k; its
\* parent surface is the view at level k - 1, or the canvas at level 0.
is_position_in_rect_no_upper_bound(rect, position) ==
    ~(position.x < 0 \/ position.y < 0)
is_position_in_rect(rect, position) ==
    /\ ~(position.x < 0 \/ position.y < 0)
    /\ ~(position.x >= rect.size.x \/ position.y >= rect.size.y)

RECURSIVE Surface_get_cell(_, _, _, _)
Surface_get_cell(c, vs, level, position) ==
    IF level = 0 THEN Canvas_get_cell(c, position)
    ELSE IF ~is_position_in_rect(vs[level], position) THEN Cell_default
    ELSE Surface_get_cell(c, vs, level - 1, Vector2_add(position, vs[level].position))

RECURSIVE Surface_set_cell(_, _, _, _, _)
Surface_set_cell(c, vs, level, position, cell) ==
    IF level = 0 THEN Canvas_set_cell(c, position, cell)
    ELSE IF ~is_position_in_rect(vs[level], position) THEN c
    ELSE Surface_set_cell(c, vs, level - 1,
                          Vector2_add(position, vs[level].position), cell)

Surface_size(c, vs, level) == IF level = 0 THEN c.size ELSE vs[level].size

---------------------------------------------------------------------------
(* The canvas and its views as a state machine.                            *)

SizeArgs == {Vector2(x, y) : x, y \in (-MaxNegSize)..MaxSize}
CellPositions == {Vector2(x, y) : x, y \in (-1)..(MaxSize + 1)}
ViewRects ==
    {Rect(Vector2(1, 0), Vector2(1, 2)),
     Rect(Vector2(-1, -1), Vector2(2, 2))}

\* The last call: its name and, for get_cell and set_cell, whether the
\* position was within the size of the surface it was made on.
CanvasCall(op, inside) == [op |-> op, inside |-> inside]
InSize(sz, position) ==
    position.x >= 0 /\ position.y >= 0 /\ position.x < sz.x /\ position.y < sz.y

\* Canvas::new and Canvas::new_filled.
InitCanvas ==
    /\ \E sz \in SizeArgs, cell \in Cells :
           /\ canvas = Canvas_new_filled(sz, cell)
           /\ c_ret = CanvasCall("new_filled", TRUE)
    /\ views = <<>>
    /\ overflow_checks \in BOOLEAN
    /\ panicked = FALSE

\* Canvas::set_size; the canvas is borrowed while a view is on it.
CanvasSetSize(sz) ==
    /\ ~panicked
    /\ views = <<>>
    /\ LET r == Canvas_set_size(canvas, sz, overflow_checks)
       IN  canvas' = r.canvas /\ panicked' = r.panicked
    /\ c_ret' = CanvasCall("set_size", TRUE)
    /\ UNCHANGED <<views, overflow_checks>>

\* set_cell on the topmost surface.
SetCell(position, cell) ==
    /\ ~panicked
    /\ canvas' = Surface_set_cell(canvas, views, Len(views), position, cell)
    /\ c_ret' = CanvasCall("set_cell",
                           InSize(Surface_size(canvas, views, Len(views)), position))
    /\ UNCHANGED <<views, overflow_checks, panicked>>

\* get_cell on the topmost surface.
GetCell(position) ==
    /\ ~panicked
    /\ c_ret' = CanvasCall("get_cell",
                           InSize(Surface_size(canvas, views, Len(views)), position))
    /\ UNCHANGED <<canvas, views, overflow_checks, panicked>>

\* to_sub_view on the topmost surface: the canvas first grows to the rect's
\* bottom-right corner, a view hands out the rect as it is.
ToSubView(rect) ==
    /\ ~panicked
    /\ Len(views) < MaxViews
    /\ IF views = <<>>
       THEN LET r == Canvas_set_size(canvas,
                         Vector2_max(canvas.size, Rect_bottom_right(rect)),
                         overflow_checks)
            IN  /\ canvas' = r.canvas
                /\ panicked' = r.panicked
                /\ views' = IF r.panicked THEN views ELSE <<rect>>
       ELSE /\ views' = Append(views, rect)
            /\ UNCHANGED <<canvas, panicked>>
    /\ c_ret' = CanvasCall("to_sub_view", TRUE)
    /\ UNCHANGED overflow_checks

\* The topmost view goes out of scope.
DropView ==
    /\ ~panicked
    /\ views # <<>>
    /\ views' = SubSeq(views, 1, Len(views) - 1)
    /\ c_ret' = CanvasCall("drop", TRUE)
    /\ UNCHANGED <<canvas, overflow_checks, panicked>>

NextCanvas ==
    \/ \E sz \in SizeArgs : CanvasSetSize(sz) /\ UNCHANGED <<treeVars, layoutVars, drawVars, schedVars, paneVars, ptyVars, exitVars, raceVars, renderVars, termVars, lockVars>>
    \/ \E p \in CellPositions, cell \in Cells :
           SetCell(p, cell) /\ UNCHANGED <<treeVars, layoutVars, drawVars, schedVars, paneVars, ptyVars, exitVars, raceVars, renderVars, termVars, lockVars>>
    \/ \E p \in CellPositions : GetCell(p) /\ UNCHANGED <<treeVars, layoutVars, drawVars, schedVars, paneVars, ptyVars, exitVars, raceVars, renderVars, termVars, lockVars>>
    \/ \E rect \in ViewRects : ToSubView(rect) /\ UNCHANGED <<treeVars, layoutVars, drawVars, schedVars, paneVars, ptyVars, exitVars, raceVars, renderVars, termVars, lockVars>>
    \/ DropView /\ UNCHANGED <<treeVars, layoutVars, drawVars, schedVars, paneVars, ptyVars, exitVars, raceVars, renderVars, termVars, lockVars>>

CanvasInit == InitTree /\ InitLayoutIdle /\ InitCanvas /\ InitDraw /\ InitSched /\ InitPanes /\ InitPty /\ InitExit /\ InitRace /\ InitRender /\ InitLocks /\ InitTermIdle
SpecCanvas == CanvasInit /\ [][NextCanvas]_vars

---------------------------------------------------------------------------
(* Canvas and view properties, checked under SpecCanvas.                   *)

\* C8: on every canvas the program builds, get_cell at a position outside
\* the canvas (a negative coordinate, x >= size.x or y >= size.y) returns
\* the default cell, and set_cell there leaves the canvas as it was.
C8_OutOfBoundsIsInert ==
    \A p \in CellPositions :
        ~InSize(canvas.size, p) =>
            /\ Canvas_get_cell(canvas, p) = Cell_default
            /\ \A cell \in Cells : Canvas_set_cell(canvas, p, cell) = canvas

\* A 2x2 canvas whose cell (0, 1) is not the default, the cell that row-major
\* index 2 of position (2, 0) would name, right after a set_cell outside it.
C8_Witness ==
    /\ views = <<>>
    /\ c_ret.op = "set_cell" /\ ~c_ret.inside
    /\ canvas.size = Vector2(2, 2)
    /\ canvas.cells[3] = "#"

\* The position on the canvas that position p of the surface at `level` names.
RECURSIVE CanvasPosition(_, _, _)
CanvasPosition(vs, level, p) ==
    IF level = 0 THEN p
    ELSE CanvasPosition(vs, level - 1, Vector2_add(p, vs[level].position))

\* Position p of the surface at `level` is within that surface and within
\* every surface below it.
RECURSIVE Backed(_, _, _, _)
Backed(c, vs, level, p) ==
    IF level = 0 THEN InSize(c.size, p)
    ELSE /\ InSize(vs[level].size, p)
         /\ Backed(c, vs, level - 1, Vector2_add(p, vs[level].position))

\* C9: for the topmost view V with rect R: at p within [0, R.size), set_cell
\* and get_cell act as the parent's at p + R.top_left, which writes or reads
\* the one canvas cell that position names when every surface below holds it
\* and otherwise changes nothing and reads the default; at p outside
\* [0, R.size), set_cell changes nothing and get_cell returns the default.
C9_ViewTranslates ==
    views # <<>> =>
        LET k == Len(views)
            R == views[k]
        IN  \A p \in CellPositions :
                LET parent_p == Vector2_add(p, R.position)
                    at == CanvasPosition(views, k, p)
                    idx == at.y * canvas.size.x + at.x + 1
                IN  IF InSize(R.size, p)
                    THEN /\ Surface_get_cell(canvas, views, k, p)
                              = Surface_get_cell(canvas, views, k - 1, parent_p)
                         /\ Surface_get_cell(canvas, views, k, p)
                              = IF Backed(canvas, views, k, p)
                                THEN canvas.cells[idx] ELSE Cell_default
                         /\ \A cell \in Cells :
                                /\ Surface_set_cell(canvas, views, k, p, cell)
                                     = Surface_set_cell(canvas, views, k - 1, parent_p, cell)
                                /\ Surface_set_cell(canvas, views, k, p, cell)
                                     = IF Backed(canvas, views, k, p)
                                       THEN [canvas EXCEPT !.cells[idx] = cell]
                                       ELSE canvas
                    ELSE /\ Surface_get_cell(canvas, views, k, p) = Cell_default
                         /\ \A cell \in Cells :
                                Surface_set_cell(canvas, views, k, p, cell) = canvas

\* A view over the right-hand column of a 2x2 canvas, right after a set_cell
\* through it wrote canvas cell (1, 1) and nothing in the left-hand column.
C9_Witness ==
    /\ views = <<Rect(Vector2(1, 0), Vector2(1, 2))>>
    /\ c_ret.op = "set_cell" /\ c_ret.inside
    /\ canvas.size = Vector2(2, 2)
    /\ canvas.cells = <<" ", " ", " ", "#">>

\* C10 as stated: the canvas holds size.x * size.y cells.
C10_Original == Len(canvas.cells) = canvas.size.x * canvas.size.y

\* C10: after any sequence of Canvas::new, new_filled, set_size, set_cell and
\* to_sub_view calls the canvas holds |size.x * size.y| cells, which is
\* size.x * size.y when that product is not negative.
C10_Amended ==
    /\ Len(canvas.cells) = Abs(canvas.size.x * canvas.size.y)
    /\ canvas.size.x * canvas.size.y >= 0 =>
           Len(canvas.cells) = canvas.size.x * canvas.size.y

\* set_size has just resized to a size with one negative component, and the
\* canvas holds cells.
C10_Witness ==
    /\ c_ret.op = "set_size"
    /\ canvas.size = Vector2(-1, 2)
    /\ Len(canvas.cells) = 2

\* C11: a Canvas::set_size from (w1, h1) to (w2, h2) that returns leaves every
\* cell (x, y) of the new canvas with x < min(w1, w2) and y < min(h1, h2) as
\* it was before the resize, and every other cell of the new canvas holds the
\* default cell.
C11_ResizeKeepsOverlap ==
    [][(c_ret'.op = "set_size" /\ ~panicked') =>
          \A p \in CellPositions :
              InSize(canvas'.size, p) =>
                  Canvas_get_cell(canvas', p)
                    = IF /\ p.x < Min(canvas.size.x, canvas'.size.x)
                         /\ p.y < Min(canvas.size.y, canvas'.size.y)
                      THEN Canvas_get_cell(canvas, p)
                      ELSE Cell_default]_vars

---------------------------------------------------------------------------
(* draw.rs: the diff renderer, over the Canvas and Cell of src/canvas.rs.  *)

\* Cell {value, style}; a Style is default (0) or some other style (1).
Style_default == 0
MuxCell(value, style) == [value |-> value, style |-> style]
MuxCell_default == MuxCell(" ", Style_default)
Cell_is_empty(cell) == cell.value = " "

MuxCanvas_new_filled(sz, cell) ==
    [cells |-> Repeat(cell, Abs(sz.x * sz.y)), size |-> sz]

\* Canvas::get_cell of src/canvas.rs: no test against the width.
MuxCanvas_get_cell(c, position) ==
    IF position.x < 0 \/ position.y < 0 THEN MuxCell_default
    ELSE IF Len(c.cells) <= position.y * c.size.x + position.x THEN MuxCell_default
    ELSE c.cells[position.y * c.size.x + position.x + 1]

\* What draw writes, one element per escape sequence or cell value.
Bytes(t, n, m, v) == [t |-> t, n |-> n, m |-> m, v |-> v]
ResetStyle == Bytes("ESC[0m", 0, 0, "")
SetCursorVisibility(visible) == Bytes(IF visible THEN "ESC[?25h" ELSE "ESC[?25l", 0, 0, "")
MoveCursor(y, x) == Bytes("ESC[n;mH", y + 1, x + 1, "")
EraseCharacter(count) == Bytes("ESC[nX", count, 0, "")
CursorForward(count) == Bytes("ESC[nC", count, 0, "")
StyleBytes(style) == Bytes("style", style, 0, "")
CellValue(cell) == Bytes("value", 0, 0, cell.value)
CarriageReturn == Bytes("CR", 0, 0, "")

\* draw.rs line 212.
is_empty_optimization_always == TRUE
is_empty_optimization_enabled == FALSE

\* One pass of the loop over x (lines 207-237); d is {to_write, last_style,
\* empty_count}.
render_cell(new_canvas, x, y, d) ==
    LET cell == MuxCanvas_get_cell(new_canvas, Vector2(x, y))
        has_next == x + 1 < new_canvas.size.x
        next == MuxCanvas_get_cell(new_canvas, Vector2(x + 1, y))
    IN  IF Cell_is_empty(cell) /\ is_empty_optimization_enabled
        THEN LET styled == d.empty_count = 0 /\ cell.style # d.last_style
                 style == IF d.empty_count = 0 THEN cell.style ELSE d.last_style
                 w1 == IF styled
                       THEN d.to_write \o <<ResetStyle, StyleBytes(cell.style)>>
                       ELSE d.to_write
                 count == d.empty_count + 1
             IN  IF ~has_next \/ ~Cell_is_empty(next) \/ next.style # style
                 THEN [to_write |-> w1 \o <<EraseCharacter(count), CursorForward(count)>>,
                       last_style |-> style, empty_count |-> 0]
                 ELSE [to_write |-> w1, last_style |-> style, empty_count |-> count]
        ELSE IF cell.style # d.last_style
        THEN [to_write |-> d.to_write \o <<ResetStyle, StyleBytes(cell.style), CellValue(cell)>>,
              last_style |-> cell.style, empty_count |-> d.empty_count]
        ELSE [d EXCEPT !.to_write = d.to_write \o <<CellValue(cell)>>]

RECURSIVE render_columns(_, _, _, _)
render_columns(new_canvas, x, y, d) ==
    IF x >= new_canvas.size.x THEN d
    ELSE render_columns(new_canvas, x + 1, y, render_cell(new_canvas, x, y, d))

\* The loop over y (lines 204-239): empty_count starts at 0 in every row and
\* last_style carries over from the row before.
RECURSIVE render_rows(_, _, _)
render_rows(new_canvas, y, last_style) ==
    IF y >= new_canvas.size.y THEN <<>>
    ELSE LET row == render_columns(new_canvas, 0, y,
                        [to_write |-> <<MoveCursor(y, 0)>>,
                         last_style |-> last_style, empty_count |-> 0])
         IN  row.to_write \o <<CarriageReturn>>
                 \o render_rows(new_canvas, y + 1, row.last_style)

\* Lines 203 and 240: the rows are written when the frames differ.
frames_always_differ(last, new_canvas) == TRUE
frames_differ(last, new_canvas) == last # new_canvas

render_frame(last, new_canvas) ==
    IF frames_differ(last, new_canvas)
    THEN render_rows(new_canvas, 0, Style_default) \o <<ResetStyle>>
    ELSE <<>>

\* Lines 245-274: the cursor of the active pane, when it has one to show.
place_cursor(cursor) ==
    IF cursor.some
    THEN <<MoveCursor(cursor.val.y, cursor.val.x), SetCursorVisibility(TRUE)>>
    ELSE <<>>

\* draw, lines 195-278.
to_write(last, new_canvas, cursor) ==
    <<ResetStyle, SetCursorVisibility(FALSE)>>
        \o render_frame(last, new_canvas) \o place_cursor(cursor)

---------------------------------------------------------------------------
(* draw_loop as a state machine: every pass reads the terminal size,       *)
(* composes a frame of that size and renders it.                           *)

NoneCursor == [some |-> FALSE, val |-> Vector2_null]
Cursors == {NoneCursor, Some(Vector2(1, 1))}

MuxCells == {MuxCell(v, st) : v \in {" ", "A"}, st \in {Style_default, 1}}

\* Rows of w cells.
Rows(w) == [1..w -> MuxCells]

\* The 8x8 frame that holds only 'A' at (0, 0).
FrameA8 ==
    [cells |-> [i \in 1..64 |-> IF i = 1 THEN MuxCell("A", Style_default)
                                ELSE MuxCell_default],
     size |-> Vector2(8, 8)]

\* The frames compose produces: every one-row frame up to MaxFrameWidth,
\* two-row frames of one repeated row, and the two 8x8 frames.
Frames ==
    {[cells |-> r, size |-> Vector2(Len(r), 1)] :
         r \in UNION {Rows(w) : w \in 1..MaxFrameWidth}}
    \cup {[cells |-> r \o r, size |-> Vector2(2, 2)] : r \in Rows(2)}
    \cup {MuxCanvas_new_filled(Vector2(8, 8), MuxCell_default), FrameA8,
          MuxCanvas_new_filled(Vector2_null, MuxCell_default)}

Draw(new_canvas, cursor) ==
    /\ size' = new_canvas.size
    /\ stdout' = to_write(last_canvas, new_canvas, cursor)
    /\ last_canvas' = IF frames_differ(last_canvas, new_canvas)
                      THEN new_canvas ELSE last_canvas
    /\ written_frame' = IF frames_differ(last_canvas, new_canvas)
                        THEN new_canvas ELSE written_frame
    /\ write_result' = "Ok"
    /\ UNCHANGED <<root_node, active_id, span_id_counter, exited, tasks, ret>>

NextDraw ==
    \E new_canvas \in Frames, cursor \in Cursors :
        Draw(new_canvas, cursor) /\ UNCHANGED <<layoutVars, canvasVars, schedVars, paneVars, ptyVars, exitVars, raceVars, renderVars, termVars, lockVars>>

SpecDraw == Init /\ [][NextDraw]_vars

---------------------------------------------------------------------------
(* Properties of the diff renderer, checked under SpecDraw.                *)

\* A draw of a frame equal to the frame rendered before it.
SameFrameAgain == stdout # <<>> /\ last_canvas' = last_canvas
\* A draw of a frame that differs from the frame rendered before it.
NewFrame == last_canvas' # last_canvas

\* C12 as stated: the second render of the same frame writes nothing.
C12_Original == [][SameFrameAgain => stdout' = <<>>]_vars

\* C12: when the newly composited frame equals the previously rendered frame,
\* draw writes no row and no cell: only the style reset and hide-cursor it
\* starts with and, when the active pane shows its cursor, one cursor move
\* and one show-cursor.
C12_Amended ==
    [][SameFrameAgain =>
          \/ stdout' = <<ResetStyle, SetCursorVisibility(FALSE)>>
          \/ /\ Len(stdout') = 4
             /\ SubSeq(stdout', 1, 2) = <<ResetStyle, SetCursorVisibility(FALSE)>>
             /\ stdout'[3].t = "ESC[n;mH"
             /\ stdout'[4] = SetCursorVisibility(TRUE)]_vars

\* The 8x8 frame with 'A' at (0, 0) was rendered, then rendered again with no
\* cursor to place.
C12_Witness ==
    /\ last_canvas = FrameA8
    /\ stdout = <<ResetStyle, SetCursorVisibility(FALSE)>>

\* The number of maximal runs of empty cells of one style in a frame.
EmptyRuns(frame) ==
    Cardinality({p \in (0..(frame.size.x - 1)) \X (0..(frame.size.y - 1)) :
        LET cell == MuxCanvas_get_cell(frame, Vector2(p[1], p[2]))
            prev == MuxCanvas_get_cell(frame, Vector2(p[1] - 1, p[2]))
        IN  /\ Cell_is_empty(cell)
            /\ p[1] = 0 \/ ~Cell_is_empty(prev) \/ prev.style # cell.style})

CountOf(out, t) == Cardinality({i \in 1..Len(out) : out[i].t = t})
SpacesWritten(out) ==
    Cardinality({i \in 1..Len(out) : out[i].t = "value" /\ out[i].v = " "})

\* C13 as stated: in a frame that differs from the previous one every maximal
\* run of empty cells comes out as one erase-N and one cursor-forward-N and
\* no space is written; row 0 of the 8x8 frame with 'A' at (0, 0) is a cursor
\* move, 'A', erase 7, forward 7.
C13_Original ==
    [][NewFrame =>
          /\ SpacesWritten(stdout') = 0
          /\ CountOf(stdout', "ESC[nX") = EmptyRuns(last_canvas')
          /\ CountOf(stdout', "ESC[nC") = EmptyRuns(last_canvas')
          /\ last_canvas' = FrameA8 =>
                 SubSeq(stdout', 3, 6)
                   = <<MoveCursor(0, 0), CellValue(MuxCell("A", Style_default)),
                       EraseCharacter(7), CursorForward(7)>>]_vars

\* C13: in a frame that differs from the previous one every cell, empty or
\* not, is written as its value, and no erase-characters or cursor-forward
\* is written; row 0 of the 8x8 frame with 'A' at (0, 0) is a cursor move,
\* 'A', seven spaces and a carriage return.
C13_Amended ==
    [][NewFrame =>
          /\ CountOf(stdout', "ESC[nX") = 0
          /\ CountOf(stdout', "ESC[nC") = 0
          /\ CountOf(stdout', "value") = Len(last_canvas'.cells)
          /\ SpacesWritten(stdout')
               = Cardinality({i \in 1..Len(last_canvas'.cells) :
                                  Cell_is_empty(last_canvas'.cells[i])})
          /\ last_canvas' = FrameA8 =>
                 SubSeq(stdout', 3, 12)
                   = <<MoveCursor(0, 0), CellValue(MuxCell("A", Style_default))>>
                     \o [i \in 1..7 |-> CellValue(MuxCell_default)]
                     \o <<CarriageReturn>>]_vars

\* The 8x8 frame with 'A' at (0, 0) has just been rendered over a different
\* frame: 8 cursor moves, 64 values, 8 carriage returns, 2 resets, 1 hide.
C13_Witness ==
    /\ last_canvas = FrameA8
    /\ Len(stdout) = 83

---------------------------------------------------------------------------
(* The draw scheduler: draw requests sent by the handlers over the draw    *)
(* channel, the periodic tick, and the draw lock around the pipeline.      *)

\* The channel of draw requests holds one message.
DrawChannelCapacity == 1

\* The stages of one execution of draw (draw.rs 169-278): compose the frame,
\* diff it against the last one, place the cursor, write; then the buffers
\* swap.
Stages == <<"compose", "diff", "cursor", "write">>
Drawing(d) == \E i \in 1..Len(Stages) : drawer[d] = Stages[i]
NextStage(stage) ==
    LET i == CHOOSE j \in 1..Len(Stages) : Stages[j] = stage
    IN  IF i < Len(Stages) THEN Stages[i + 1] ELSE "idle"

\* Mutex::try_lock on the draw lock.
try_lock_always(lock) == TRUE
try_lock(lock) == lock = "free"

\* Sender::try_send on the draw channel: the message is dropped when the
\* channel is full.
try_send_unbounded(channel) == channel + 1
try_send(channel) == IF channel < DrawChannelCapacity THEN channel + 1 ELSE channel

TriggerSources == {"input", "resize", "pane_exit"}

\* trigger_draw, called by an input or resize handler and by kill_span: the
\* request is dropped when a draw holds the draw lock or a request is
\* already waiting; the caller goes on in both cases.
TriggerDraw(source) ==
    /\ draw_channel' = IF try_lock(draw_lock) THEN try_send(draw_channel)
                       ELSE draw_channel
    /\ trigger' = [source |-> source,
                   outcome |-> IF draw_channel' = draw_channel
                               THEN "dropped" ELSE "sent"]
    /\ UNCHANGED <<draw_lock, drawer, canvas_toggle>>

\* The draw task receives a request and takes the draw lock; it waits for
\* the lock when the tick's draw holds it.
EventDraw ==
    /\ drawer["event"] = "idle"
    /\ draw_channel > 0
    /\ draw_lock = "free"
    /\ draw_channel' = draw_channel - 1
    /\ draw_lock' = "event"
    /\ drawer' = [drawer EXCEPT !["event"] = Stages[1]]
    /\ UNCHANGED <<trigger, canvas_toggle>>

\* The periodic tick: it draws when the draw lock is free and is skipped
\* otherwise.
Tick ==
    /\ drawer["tick"] = "idle"
    /\ IF try_lock(draw_lock)
       THEN /\ draw_lock' = "tick"
            /\ drawer' = [drawer EXCEPT !["tick"] = Stages[1]]
            /\ trigger' = [source |-> "tick", outcome |-> "drawn"]
       ELSE /\ trigger' = [source |-> "tick", outcome |-> "dropped"]
            /\ UNCHANGED <<draw_lock, drawer>>
    /\ UNCHANGED <<draw_channel, canvas_toggle>>

\* One stage of a draw; after the last one the buffers swap (state.rs,
\* swap_canvas) and the draw lock is released.
DrawStep(d) ==
    /\ Drawing(d)
    /\ drawer' = [drawer EXCEPT ![d] = NextStage(drawer[d])]
    /\ IF NextStage(drawer[d]) = "idle"
       THEN /\ canvas_toggle' = ~canvas_toggle
            /\ draw_lock' = "free"
       ELSE UNCHANGED <<canvas_toggle, draw_lock>>
    /\ UNCHANGED <<draw_channel, trigger>>

NextSched ==
    \/ \E source \in TriggerSources :
           TriggerDraw(source) /\ UNCHANGED <<treeVars, layoutVars, canvasVars, drawVars, paneVars, ptyVars, exitVars, raceVars, renderVars, termVars, lockVars>>
    \/ EventDraw /\ UNCHANGED <<treeVars, layoutVars, canvasVars, drawVars, paneVars, ptyVars, exitVars, raceVars, renderVars, termVars, lockVars>>
    \/ Tick /\ UNCHANGED <<treeVars, layoutVars, canvasVars, drawVars, paneVars, ptyVars, exitVars, raceVars, renderVars, termVars, lockVars>>
    \/ \E d \in {"event", "tick"} :
           DrawStep(d) /\ UNCHANGED <<treeVars, layoutVars, canvasVars, drawVars, paneVars, ptyVars, exitVars, raceVars, renderVars, termVars, lockVars>>

SpecSched == Init /\ [][NextSched]_vars

\* C14: whatever the order of draw requests, ticks and pane exits, at most
\* one draw task is between the start and the finish of the draw pipeline.
C14_OneDrawAtATime ==
    /\ ~(Drawing("event") /\ Drawing("tick"))
    /\ \A d \in {"event", "tick"} : Drawing(d) => draw_lock = d

\* The tick's draw is in the pipeline while the draw task holds a request it
\* received before and waits for the lock.
C14_Witness ==
    /\ Drawing("tick")
    /\ drawer["event"] = "idle"
    /\ draw_channel = 1
    /\ trigger.source = "pane_exit"

\* C15: the draw channel never holds more than one request, and a trigger
\* that fires while a draw holds the draw lock is one step of its caller
\* that leaves the channel and both draw tasks as they are: the request is
\* dropped.
C15_TriggersNeverStack ==
    /\ [](draw_channel <= 1)
    /\ [][(trigger' # trigger /\ trigger'.source \in TriggerSources
             /\ draw_lock # "free")
          => /\ trigger'.outcome = "dropped"
             /\ UNCHANGED <<draw_channel, drawer, draw_lock>>]_vars

\* A trigger has just been dropped while the draw task was writing, with no
\* request waiting.
C15_Witness ==
    /\ drawer["event"] = "write"
    /\ trigger = [source |-> "input", outcome |-> "dropped"]
    /\ draw_channel = 0

---------------------------------------------------------------------------
(* Pane creation on a single-leaf tree.                                    *)

\* C20: create_span on a tree that is a single leaf makes the root a Span
\* whose children are the old root leaf and then the new leaf, both of
\* weight 1; the span is Horizontal exactly when the root rectangle is
\* strictly wider than high, Vertical otherwise.
C20_SingleLeafSplit ==
    [][(IsCall("create_span") /\ root_node.some /\ root_node.val.data.kind = "Void")
       => /\ ret'.ok
          /\ root_node'.some
          /\ root_node'.val.data.kind = "Span"
          /\ root_node'.val.data.children
                = <<SpanChild(root_node.val, 1), SpanChild(Leaf(ret'.value.val), 1)>>
          /\ ret'.value.val \notin NodeIds(root_node.val)
          /\ (root_node'.val.data.direction = "Horizontal"
                <=> get_root_dimensions(size).size.x > get_root_dimensions(size).size.y)
          /\ (root_node'.val.data.direction = "Vertical"
                <=> get_root_dimensions(size).size.x <= get_root_dimensions(size).size.y)]_vars

\* The second pane has just been created on a square terminal: the root is
\* a Vertical span of the two leaves.
C20_Witness ==
    /\ ret.op = "create_span"
    /\ size = Vector2(7, 7)
    /\ root_node = Some(Node(3, Span("Vertical", <<SpanChild(Leaf(1), 1), SpanChild(Leaf(2), 1)>>)))

---------------------------------------------------------------------------
(* Errors of create_span and remove_node.                                  *)

\* C18: when create_span or remove_node returns an error, the layout tree
\* is what it was before the call and the application has not exited: the
\* loops go on taking steps.
C18_ErrorLeavesTree ==
    /\ [](\A active \in 0..(MaxId + 1) :
             LET r == create_span(root_node, active, span_id_counter, size)
             IN  ~r.ok => r.root = root_node)
    /\ [][((IsCall("create_span") \/ IsCall("remove_node_from_state")) /\ ~ret'.ok)
       => /\ root_node' = root_node
          /\ ~exited'
          /\ exited' = exited]_vars

\* remove_node has just failed for the id of a pane that left the tree
\* together with the span that held it.
C18_Witness ==
    /\ ret.op = "remove_node_from_state"
    /\ ~ret.ok
    /\ root_node.some
    /\ ret.arg \notin NodeIds(root_node.val)
    /\ ~exited

---------------------------------------------------------------------------
(* Panes with their processes and tasks.                                   *)

\* spawn.rs 353-375, kill_process: the first process of the list with this
\* span id is released and taken out of the list; nothing happens when no
\* process has the id.
kill_process(list, span_id) == list \ {span_id}

\* spawn.rs 214-271, create_process: create_span, then the process is
\* spawned and pushed to the list, its task is handed to the process
\* channel and a draw is requested.
CreateProcess ==
    /\ CreateSpan
    /\ IF ret'.ok
       THEN /\ processes' = processes \cup {ret'.value.val}
            /\ pane_task' = [pane_task EXCEPT ![ret'.value.val] = "running"]
            /\ TriggerDraw("input")
       ELSE UNCHANGED <<processes, pane_task, schedVars>>
    /\ UNCHANGED redrawn

\* spawn.rs 217-224: create_span has inserted the leaf, then which or
\* spawn_interactive_process returns an error and `?` ends create_process:
\* no process is pushed, no task is spawned and no draw is requested.  The
\* error of the first call, made by run_application, ends the program
\* (startup.rs 93); later calls are made by input handlers.
CreateProcessSpawnFails ==
    /\ ~exited
    /\ root_node.some
    /\ span_id_counter + 2 <= MaxId
    /\ LET r == create_span(root_node, active_id, span_id_counter, size)
       IN  /\ active_id' = span_id_counter + 1
           /\ span_id_counter' = r.counter
           /\ root_node' = r.root
           /\ ret' = Call("create_process", active_id, FALSE, r.value)
    /\ UNCHANGED <<size, exited, tasks, schedVars, paneVars>>

\* spawn.rs 341-351, kill_span: remove_node_from_state, kill_process and
\* trigger_draw, each reached only when the one before returned Ok; exit
\* ends the program inside remove_node_from_state.
kill_span(span_id) ==
    /\ RemoveNodeFromState(span_id)
    /\ IF ret'.ok /\ ~exited'
       THEN /\ processes' = kill_process(processes, span_id)
            /\ TriggerDraw("pane_exit")
            /\ redrawn' = redrawn \cup
                   ((IF root_node.some THEN NodeIds(root_node.val) ELSE {})
                      \ NodeIds(root_node'.val))
       ELSE UNCHANGED <<processes, schedVars, redrawn>>

\* spawn.rs 329-339, kill_active_span.
KillActiveSpan ==
    /\ kill_span(active_id)
    /\ UNCHANGED pane_task

\* process.rs 191-208: the stdout of the pane reaches end-of-file or fails,
\* or the process-exit future resolves.
PaneEnds(p) ==
    /\ ~exited
    /\ pane_task[p] = "running"
    /\ pane_task' = [pane_task EXCEPT ![p] = "ended"]
    /\ UNCHANGED <<treeVars, schedVars, processes, redrawn>>

\* process.rs 209-214: the task of the pane calls kill_span with the span id
\* of its process and finishes.
TaskKillSpan(p) ==
    /\ pane_task[p] = "ended"
    /\ kill_span(p)
    /\ pane_task' = [pane_task EXCEPT ![p] = "done"]

NextPanes ==
    \/ update_size /\ UNCHANGED <<layoutVars, canvasVars, drawVars, schedVars, paneVars, ptyVars, exitVars, raceVars, renderVars, termVars, lockVars>>
    \/ CreateProcess /\ UNCHANGED <<layoutVars, canvasVars, drawVars, ptyVars, exitVars, raceVars, renderVars, termVars, lockVars>>
    \/ CreateProcessSpawnFails /\ UNCHANGED <<layoutVars, canvasVars, drawVars, ptyVars, exitVars, raceVars, renderVars, termVars, lockVars>>
    \/ KillActiveSpan /\ UNCHANGED <<layoutVars, canvasVars, drawVars, ptyVars, exitVars, raceVars, renderVars, termVars, lockVars>>
    \/ \E p \in 1..MaxId : PaneEnds(p) /\ UNCHANGED <<layoutVars, canvasVars, drawVars, ptyVars, exitVars, raceVars, renderVars, termVars, lockVars>>
    \/ \E p \in 1..MaxId : TaskKillSpan(p) /\ UNCHANGED <<layoutVars, canvasVars, drawVars, ptyVars, exitVars, raceVars, renderVars, termVars, lockVars>>

SpecPanes == Init /\ [][NextPanes]_vars

\* C16: when the task of a pane whose stdout ended or whose process exited
\* has called kill_span with the pane's id, the pane's leaf is not in the
\* tree, its process is not in the process list and a draw was requested
\* after the leaf left the tree, unless the application has exited.
C16_EndedPaneIsCleanedUp ==
    [][\A p \in 1..MaxId :
          (pane_task[p] = "ended" /\ pane_task'[p] = "done")
          => \/ exited'
             \/ /\ root_node'.some => p \notin NodeIds(root_node'.val)
                /\ p \notin processes'
                /\ p \in redrawn']_vars

---------------------------------------------------------------------------
(* Releasing a pseudo-terminal (tty_windows.rs).                           *)

\* Release calls each holder of a copy makes.
MaxReleases == 2

\* tty_windows.rs 44-62, close: ClosePseudoConsole, then CloseHandle on the
\* six handles in order; the first CloseHandle that fails ends the call
\* with its error.  `failing` is the position of that handle, 0 for none.
close(closes, failing) ==
    [closes |-> [h \in DOMAIN closes |->
                    IF \/ h = "hpcon"
                       \/ \E i \in 1..Len(Handles) :
                              Handles[i] = h /\ (failing = 0 \/ i < failing)
                    THEN closes[h] + 1 ELSE closes[h]],
     ok |-> failing = 0]

\* tty_windows.rs 230-232: the test of the flag under its mutex.
closed_never(flag) == FALSE
closed_already(flag) == flag

\* A holder of a copy calls release (kill_process, or the exit watcher's
\* done_future); close_pty starts by waiting for the mutex of is_closed.
ReleaseCall(c) ==
    /\ releaser[c] = "idle"
    /\ release_calls[c] < MaxReleases
    /\ releaser' = [releaser EXCEPT ![c] = "waiting"]
    /\ release_calls' = [release_calls EXCEPT ![c] = @ + 1]
    /\ UNCHANGED <<is_closed, is_closed_lock, handle_closes, release_ret>>

\* Line 229: pty.is_closed.lock().await.
ReleaseLock(c) ==
    /\ releaser[c] = "waiting"
    /\ is_closed_lock = "free"
    /\ is_closed_lock' = c
    /\ releaser' = [releaser EXCEPT ![c] = "locked"]
    /\ UNCHANGED <<is_closed, release_calls, handle_closes, release_ret>>

\* Lines 230-233: return Ok when the flag is set, set it otherwise; the
\* guard of the mutex is dropped on return.
ReleaseCheck(c) ==
    /\ releaser[c] = "locked"
    /\ IF closed_already(is_closed)
       THEN /\ releaser' = [releaser EXCEPT ![c] = "idle"]
            /\ is_closed_lock' = "free"
            /\ release_ret' = [caller |-> c, ok |-> TRUE, closed |-> 0]
            /\ UNCHANGED is_closed
       ELSE /\ is_closed' = TRUE
            /\ releaser' = [releaser EXCEPT ![c] = "closing"]
            /\ UNCHANGED <<is_closed_lock, release_ret>>
    /\ UNCHANGED <<release_calls, handle_closes>>

\* Lines 234-241: close(..) with the mutex still held; its result is the
\* result of release.
ReleaseClose(c) ==
    /\ releaser[c] = "closing"
    /\ \E failing \in 0..Len(Handles) :
           LET r == close(handle_closes, failing)
           IN  /\ handle_closes' = r.closes
               /\ release_ret' = [caller |-> c, ok |-> r.ok,
                                  closed |-> IF failing = 0 THEN Len(Handles) + 1
                                             ELSE failing]
    /\ releaser' = [releaser EXCEPT ![c] = "idle"]
    /\ is_closed_lock' = "free"
    /\ UNCHANGED <<is_closed, release_calls>>

NextPty ==
    \/ \E c \in Releasers :
           ReleaseCall(c) /\ UNCHANGED <<treeVars, layoutVars, canvasVars, drawVars, schedVars, paneVars, exitVars, raceVars, renderVars, termVars, lockVars>>
    \/ \E c \in Releasers :
           ReleaseLock(c) /\ UNCHANGED <<treeVars, layoutVars, canvasVars, drawVars, schedVars, paneVars, exitVars, raceVars, renderVars, termVars, lockVars>>
    \/ \E c \in Releasers :
           ReleaseCheck(c) /\ UNCHANGED <<treeVars, layoutVars, canvasVars, drawVars, schedVars, paneVars, exitVars, raceVars, renderVars, termVars, lockVars>>
    \/ \E c \in Releasers :
           ReleaseClose(c) /\ UNCHANGED <<treeVars, layoutVars, canvasVars, drawVars, schedVars, paneVars, exitVars, raceVars, renderVars, termVars, lockVars>>

SpecPty == Init /\ [][NextPty]_vars

---------------------------------------------------------------------------
(* Exit on removal of the last pane, next to the draw loop.                *)

\* Frames the draw loop writes.
MaxDraws == 2

\* spawn.rs 382-403: root_guard lives to the end of the block; exit(0) is
\* called inside it and does not return.
guard_dropped(exits) == "free"
guard_after_remove(exits) == IF exits THEN "exit" ELSE "free"

\* spawn.rs 377-406, a kill_span whose remove_node_from_state takes the lock
\* of the root, removes the node and, when no pane is left, enters exit.
KillSpanStep(span_id) ==
    /\ root_guard = "free"
    /\ RemoveNodeFromState(span_id)
    /\ root_guard' = guard_after_remove(exited')
    /\ exit_pc' = IF exited' THEN "exit_helper" ELSE exit_pc
    /\ UNCHANGED <<raw_mode, stdout_buffer, draw_pc, new_frame, tty>>

\* create_span takes the lock of the root as well (spawn.rs 33).
CreateSpanStep ==
    /\ root_guard = "free"
    /\ CreateSpan
    /\ UNCHANGED exitVars

\* exit.rs 15-33, exit_helper, one statement at a time: raw mode off, the
\* input modes off (execute! flushes), the three restoring sequences
\* written to std::io::stdout, flush, process::exit.
ExitSequence == <<"exit_helper", "raw_disabled", "modes_disabled", "style_reset",
                  "alternate_left", "cursor_shown", "flushed", "terminated">>
ExitStep ==
    /\ \E i \in 1..(Len(ExitSequence) - 1) :
           /\ exit_pc = ExitSequence[i]
           /\ exit_pc' = ExitSequence[i + 1]
    /\ raw_mode' = IF exit_pc = "exit_helper" THEN FALSE ELSE raw_mode
    /\ stdout_buffer' =
           IF exit_pc = "modes_disabled" THEN Append(stdout_buffer, "ResetStyle")
           ELSE IF exit_pc = "style_reset"
           THEN Append(stdout_buffer, "SetAlternateScreenBuffer(false)")
           ELSE IF exit_pc = "alternate_left"
           THEN Append(stdout_buffer, "SetCursorVisibility(true)")
           ELSE IF exit_pc = "cursor_shown" THEN <<>>
           ELSE stdout_buffer
    /\ tty' = IF exit_pc = "raw_disabled" THEN Append(tty, "DisableInputModes")
              ELSE IF exit_pc = "cursor_shown" THEN tty \o stdout_buffer
              ELSE tty
    /\ UNCHANGED <<root_guard, draw_pc, new_frame, treeVars>>

FramesWritten(log) ==
    Cardinality({i \in 1..Len(log) :
                   log[i] \in {"frame_no_tree", "frame_panes", "frame_emptied"}})

\* draw.rs 173-193: the draw loop takes the lock of the root and composes
\* the frame of the tree it finds.
DrawCompose ==
    /\ draw_pc = "idle"
    /\ exit_pc # "terminated"
    /\ root_guard = "free"
    /\ FramesWritten(tty) < MaxDraws
    /\ new_frame' = IF ~root_node.some THEN "frame_no_tree"
                ELSE IF exited THEN "frame_emptied"
                ELSE "frame_panes"
    /\ draw_pc' = "composed"
    /\ UNCHANGED <<root_guard, exit_pc, raw_mode, stdout_buffer, tty, treeVars>>

\* draw.rs 195-274: the frame is rendered; the cursor is placed under the
\* lock of the root when the active pane shows its cursor, and without
\* taking the lock otherwise.
DrawCursor ==
    /\ draw_pc = "composed"
    /\ exit_pc # "terminated"
    /\ \E is_cursor_visible \in BOOLEAN : is_cursor_visible => root_guard = "free"
    /\ draw_pc' = "rendered"
    /\ UNCHANGED <<root_guard, exit_pc, raw_mode, stdout_buffer, new_frame, tty, treeVars>>

\* draw.rs 275-276: the rendered frame is written to the terminal.
DrawWrite ==
    /\ draw_pc = "rendered"
    /\ exit_pc # "terminated"
    /\ tty' = Append(tty, new_frame)
    /\ draw_pc' = "idle"
    /\ UNCHANGED <<root_guard, exit_pc, raw_mode, stdout_buffer, new_frame, treeVars>>

NextExit ==
    \/ update_size /\ UNCHANGED <<layoutVars, canvasVars, drawVars, schedVars, paneVars, ptyVars, exitVars, raceVars, renderVars, termVars, lockVars>>
    \/ CreateSpanStep /\ UNCHANGED <<layoutVars, canvasVars, drawVars, schedVars, paneVars, ptyVars, raceVars, renderVars, termVars, lockVars>>
    \/ \E id \in 0..MaxId :
           KillSpanStep(id) /\ UNCHANGED <<layoutVars, canvasVars, drawVars, schedVars, paneVars, ptyVars, raceVars, renderVars, termVars, lockVars>>
    \/ ExitStep /\ UNCHANGED <<layoutVars, canvasVars, drawVars, schedVars, paneVars, ptyVars, raceVars, renderVars, termVars, lockVars>>
    \/ DrawCompose /\ UNCHANGED <<layoutVars, canvasVars, drawVars, schedVars, paneVars, ptyVars, raceVars, renderVars, termVars, lockVars>>
    \/ DrawCursor /\ UNCHANGED <<layoutVars, canvasVars, drawVars, schedVars, paneVars, ptyVars, raceVars, renderVars, termVars, lockVars>>
    \/ DrawWrite /\ UNCHANGED <<layoutVars, canvasVars, drawVars, schedVars, paneVars, ptyVars, raceVars, renderVars, termVars, lockVars>>

SpecExit == Init /\ [][NextExit]_vars

WritesOf(log, item) == {i \in 1..Len(log) : log[i] = item}
RestoringWrites == {"ResetStyle", "SetAlternateScreenBuffer(false)", "SetCursorVisibility(true)"}

\* C19: when the removal of the last pane has ended the process, raw mode
\* is off and the style reset, the leaving of the alternate screen and the
\* showing of the cursor have reached the terminal; and no frame of the
\* emptied tree comes after a restoring write.
C19_ExitRestoresTerminal ==
    /\ exit_pc = "terminated"
       => /\ ~raw_mode
          /\ \A item \in RestoringWrites : Cardinality(WritesOf(tty, item)) = 1
          /\ stdout_buffer = <<>>
    /\ exit_pc # "none" <=> exited
    /\ \A i \in 1..Len(tty) : \A j \in 1..Len(tty) :
          (tty[i] \in RestoringWrites /\ i < j) => tty[j] # "frame_emptied"

\* The process has terminated after the restoring writes, and a frame the
\* draw loop had composed while the last pane was in the tree reached the
\* terminal after them.
C19_Witness ==
    /\ exit_pc = "terminated"
    /\ Len(tty) = 5
    /\ tty[4] = "SetCursorVisibility(true)"
    /\ tty[5] = "frame_panes"

---------------------------------------------------------------------------
(* create_span with a Span root: nest or append.                           *)

\* What the stated rule gives for create_span on `root` with the leaf
\* `active` under the span `parent`: a perpendicular span of the active leaf
\* and the new leaf in the active leaf's place when the active pane's cross
\* extent exceeds parent_extent * avg / (total + avg), the new leaf appended
\* to the parent with the average weight otherwise.
SplitByRule(root, active, new_id, sz) ==
    LET parent == ParentOf(root, active)
        children == parent.data.children
        total == SumSeq(Weights(children))
        len == Len(children)
        root_rect == get_root_dimensions(sz)
        parent_rect == get_span_dimensions(root, parent.id, root_rect).val
        active_rect == get_span_dimensions(root, active, root_rect).val
        horizontal == parent.data.direction = "Horizontal"
        parent_extent == IF horizontal THEN parent_rect.size.x ELSE parent_rect.size.y
        active_extent == IF horizontal THEN active_rect.size.y ELSE active_rect.size.x
        nest == active_extent * (total * len + total) > parent_extent * total
        index == child_index(children, active)
    IN  [nest |-> nest,
         children |->
            IF nest
            THEN [children EXCEPT ![index].node.data =
                     Span(IF horizontal THEN "Vertical" ELSE "Horizontal",
                          <<SpanChild(Leaf(active), 1), SpanChild(Leaf(new_id), 1)>>)]
            ELSE Append(children, SpanChild(Leaf(new_id), total \div len))]

\* The children of the span that held `active`, with the id of a span
\* nested in the active leaf's place set aside.
ChildrenAfter(root_after, parent_id, active) ==
    LET children == NodeAt(root_after, parent_id).data.children
    IN  [i \in 1..Len(children) |->
            IF children[i].node.data.kind = "Span"
               /\ active \in {children[i].node.data.children[j].node.id :
                                 j \in 1..Len(children[i].node.data.children)}
            THEN [children[i] EXCEPT !.node.id = active]
            ELSE children[i]]

\* C21: with a Span root and an active leaf, create_span nests a
\* perpendicular span of the active leaf and the new leaf, weights 1, in the
\* active leaf's place exactly when the active pane's cross extent is
\* strictly greater than parent_extent * avg / (total + avg); otherwise it
\* appends the new leaf to the parent span with the average weight.
C21_NestOrAppend ==
    [][(/\ IsCall("create_span")
        /\ root_node.some
        /\ root_node.val.data.kind = "Span"
        /\ active_id \in LeafIds(root_node.val))
       => LET parent == ParentOf(root_node.val, active_id)
              rule == SplitByRule(root_node.val, active_id, span_id_counter + 1, size)
          IN  /\ ret'.ok
              /\ ret'.value = Some(span_id_counter + 1)
              /\ ChildrenAfter(root_node'.val, parent.id, active_id) = rule.children
              /\ rule.nest <=> Len(NodeAt(root_node'.val, parent.id).data.children)
                                  = Len(parent.data.children)]_vars

---------------------------------------------------------------------------
(* create_span on a long row of panes.                                     *)

\* Panes in the row before the call.
MinRowPanes == 40
MaxRowPanes == 48

\* The active pane is one of the first panes of the row.
MaxRowActive == 4
MaxCount == 2
MaxRenderPanes == 2 \* SpecRender: panes in the tree

\* Terminals on which a row of up to MaxRowPanes panes builds up: each
\* create_span appends as long as the cross extent does not exceed the
\* projected extent.
RowSizes == {<<196, 4>>, <<98, 2>>, <<4, 196>>}

\* The row n create_span calls build: the second call makes span 3 the root
\* over leaves 1 and 2, the later ones append leaves 4, 5, ...
RowLeaf(i) == IF i <= 2 THEN i ELSE i + 1
Row(n, direction) ==
    Node(3, Span(direction, [i \in 1..n |-> SpanChild(Leaf(RowLeaf(i)), 1)]))

RowInit ==
    /\ \E n \in MinRowPanes..MaxRowPanes : \E s \in RowSizes :
           /\ size = Vector2(s[1], s[2])
           /\ root_node = Some(Row(n, root_direction(get_root_dimensions(size))))
           /\ span_id_counter = n + 1
           /\ tasks = {RowLeaf(i) : i \in 1..n}
           /\ active_id \in {RowLeaf(i) : i \in 1..MaxRowActive}
    /\ exited = FALSE
    /\ ret = Call("new", 0, TRUE, NoneId)
    /\ InitLayoutIdle /\ InitCanvasIdle /\ InitDraw /\ InitSched /\ InitPanes
    /\ InitPty /\ InitExit /\ InitRace /\ InitRender /\ InitLocks /\ InitTermIdle

\* create_process -> create_span, once, on the row.
CreateSpanOnRow ==
    /\ ret.op = "new"
    /\ LET r == create_span(root_node, active_id, span_id_counter, size)
       IN  /\ active_id' = span_id_counter + 1
           /\ span_id_counter' = r.counter
           /\ root_node' = r.root
           /\ tasks' = IF r.ok THEN tasks \cup {r.value.val} ELSE tasks
           /\ ret' = Call("create_span", active_id, r.ok, r.value)
    /\ UNCHANGED <<size, exited>>

NextRow ==
    CreateSpanOnRow /\ UNCHANGED <<layoutVars, canvasVars, drawVars, schedVars, paneVars, ptyVars, exitVars, raceVars, renderVars, termVars, lockVars>>

SpecRow == RowInit /\ [][NextRow]_vars

---------------------------------------------------------------------------
(* create_span calls of handlers that run at the same time (input.rs       *)
(* 321-332 spawns one task per key press), next to removals by pane tasks. *)

\* Ids the calls under way may still take from the counter for a container.
IdsReserved == Cardinality({c \in Creators : creating[c].pc = "started"})

\* spawn.rs 22-26 and 44-48: span_id_counter.fetch_add(1, Relaxed) + 1.
fetch_add_unchanged(counter) == counter
fetch_add_plus_one(counter) == counter + 1

\* spawn.rs 18-31: the active id is loaded, new_id is taken from the
\* counter and stored as the active id, and the root rectangle is read.  The
\* first pane is created by run_application before the input loop starts
\* (startup.rs 93-95), so no other call runs next to that one.  A call is
\* named "second" only while another one is under way.
CreateBegin(c) ==
    /\ ~exited
    /\ creating[c].pc = "idle"
    /\ ~root_node.some => \A d \in Creators : creating[d].pc = "idle"
    /\ c = "second" => creating["first"].pc = "started"
    /\ span_id_counter + IdsReserved + 1 <= MaxId
    /\ creating' = [creating EXCEPT ![c] =
                       [pc |-> "started", active |-> active_id,
                        new_id |-> fetch_add_plus_one(span_id_counter),
                        root_rect |-> get_root_dimensions(size)]]
    /\ span_id_counter' = span_id_counter + 1
    /\ active_id' = fetch_add_plus_one(span_id_counter)
    /\ ret' = Call("fetch_add", active_id, TRUE, Some(fetch_add_plus_one(span_id_counter)))
    /\ UNCHANGED <<root_node, size, exited, tasks, killing>>

\* spawn.rs 32-211: under the lock of the root, the tree is changed with the
\* ids loaded before; a container id is taken from the counter as it stands
\* now, while the counter has one left below MaxId.
CreateFinish(c) ==
    /\ ~exited
    /\ creating[c].pc = "started"
    /\ LET r == create_span_ids(root_node, creating[c].active, creating[c].new_id,
                                fetch_add_plus_one(span_id_counter),
                                creating[c].root_rect.size)
       IN  /\ r.container => span_id_counter + 1 <= MaxId
           /\ root_node' = r.root
           /\ span_id_counter' = IF r.container THEN span_id_counter + 1
                                 ELSE span_id_counter
           /\ tasks' = IF r.ok THEN tasks \cup {r.value.val} ELSE tasks
           /\ ret' = Call("create_span", creating[c].active, r.ok, r.value)
    /\ creating' = [creating EXCEPT ![c] = NotCreating]
    /\ UNCHANGED <<active_id, size, exited, killing>>

NextRace ==
    \/ update_size /\ UNCHANGED <<layoutVars, canvasVars, drawVars, schedVars, paneVars, ptyVars, exitVars, raceVars, renderVars, termVars, lockVars>>
    \/ \E c \in Creators :
           CreateBegin(c) /\ UNCHANGED <<layoutVars, canvasVars, drawVars, schedVars, paneVars, ptyVars, exitVars, renderVars, termVars, lockVars>>
    \/ \E c \in Creators :
           CreateFinish(c) /\ UNCHANGED <<layoutVars, canvasVars, drawVars, schedVars, paneVars, ptyVars, exitVars, renderVars, termVars, lockVars>>
    \/ \E id \in 0..MaxId :
           RemoveNodeFromState(id) /\ UNCHANGED <<layoutVars, canvasVars, drawVars, schedVars, paneVars, ptyVars, exitVars, raceVars, renderVars, termVars, lockVars>>

SpecRace == Init /\ [][NextRace]_vars

\* How often `id` occurs as the id of a node of the tree.
RECURSIVE Occurrences(_, _)
Occurrences(node, id) ==
    (IF node.id = id THEN 1 ELSE 0)
    + SumSeq([i \in 1..Len(node.data.children) |->
                 Occurrences(node.data.children[i].node, id)])

\* C22: whatever the order and interleaving of create_span and remove_node
\* calls, no two nodes of the tree have the same id, and every id the
\* counter hands out is greater than every id handed out before.
C22_IdsUniqueAndGrowing ==
    /\ [](root_node.some =>
            /\ \A id \in NodeIds(root_node.val) :
                  /\ Occurrences(root_node.val, id) = 1
                  /\ id <= span_id_counter
            /\ \A c \in Creators :
                  creating[c].pc = "started" =>
                      /\ creating[c].new_id \notin NodeIds(root_node.val)
                      /\ creating[c].new_id <= span_id_counter
                      /\ \A d \in Creators \ {c} :
                            creating[d].pc = "started"
                                => creating[d].new_id # creating[c].new_id)
    /\ [][/\ span_id_counter' >= span_id_counter
          /\ root_node'.some =>
                \A id \in NodeIds(root_node'.val) \
                          (IF root_node.some THEN NodeIds(root_node.val) ELSE {}) :
                    \/ id > span_id_counter
                    \/ \E c \in Creators :
                          creating[c].pc = "started" /\ creating[c].new_id = id]_vars

\* Two calls ran at the same time and the one that took its id second
\* changed the tree first: pane 3 comes before pane 2 under span 4.
C22_Witness ==
    /\ \A c \in Creators : creating[c].pc = "idle"
    /\ ret = Call("create_span", 1, TRUE, Some(2))
    /\ span_id_counter = 4
    /\ root_node = Some(Node(4, Span("Vertical",
                        <<SpanChild(Leaf(1), 1), SpanChild(Leaf(3), 1),
                          SpanChild(Leaf(2), 1)>>)))

---------------------------------------------------------------------------
(* canvas.rs: TerminalInfo, the emulator of one pane, over the Canvas of   *)
(* src/canvas.rs.  Checked under SpecTerm.                                 *)

\* Canvas::set_cell of src/canvas.rs (lines 166-181): no test against the
\* width, only against the length of the Vec.
MuxCanvas_set_cell(c, position, cell) ==
    IF position.x < 0 \/ position.y < 0 THEN c
    ELSE IF Len(c.cells) <= position.y * c.size.x + position.x THEN c
    ELSE [c EXCEPT !.cells[position.y * c.size.x + position.x + 1] = cell]

Cell_empty_styled(style) == MuxCell(" ", style)

TerminalInfo_new(sz) ==
    [canvas |-> MuxCanvas_new_filled(sz, MuxCell_default), cursor |-> Vector2_null,
     current_style |-> Style_default, is_wrap_state_pending |-> FALSE]

\* set_cursor_y_wrap (438-459): past the last row the rows move up by diff
\* and the rows that became free are cleared.
set_cursor_y_wrap(t, y) ==
    IF y >= t.canvas.size.y
    THEN LET diff == Min(y - t.cursor.y, t.canvas.size.y)
             w == t.canvas.size.x
             h == t.canvas.size.y
             moved == [t.canvas EXCEPT !.cells =
                          [i \in 1..Len(t.canvas.cells) |->
                              IF (i - 1) \div w < h - 1
                              THEN MuxCanvas_get_cell(t.canvas,
                                       Vector2((i - 1) % w, ((i - 1) \div w) + diff))
                              ELSE t.canvas.cells[i]]]
             cleared == [moved EXCEPT !.cells =
                          [i \in 1..Len(moved.cells) |->
                              IF (i - 1) \div w >= h - diff /\ (i - 1) \div w < h
                              THEN MuxCell_default ELSE moved.cells[i]]]
         IN  [t EXCEPT !.cursor.y = h - 1, !.canvas = cleared]
    ELSE [t EXCEPT !.cursor.y = y]

\* set_cursor_x_wrap (460-467).
set_cursor_x_wrap(t, x) ==
    LET moved == IF x >= t.canvas.size.x
                 THEN set_cursor_y_wrap([t EXCEPT !.cursor.x = 0], t.cursor.y + 1)
                 ELSE [t EXCEPT !.cursor.x = x]
    IN  [moved EXCEPT !.is_wrap_state_pending = FALSE]

\* set_cursor_x_pending_wrap (468-476).
set_cursor_x_pending_wrap(t, x) ==
    IF x >= t.canvas.size.x
    THEN [t EXCEPT !.cursor.x = t.canvas.size.x - 1, !.is_wrap_state_pending = TRUE]
    ELSE [t EXCEPT !.cursor.x = x, !.is_wrap_state_pending = FALSE]

\* set_cursor_x_no_wrap (477-481): the minimum with the last column only.
set_cursor_x_no_wrap(t, x) ==
    [t EXCEPT !.cursor.x = Min(x, t.canvas.size.x - 1), !.is_wrap_state_pending = FALSE]

\* parse().unwrap_or(d) of the parameter of a CSI sequence.
unwrap_or(parameter, d) == IF parameter.some THEN parameter.val ELSE d

\* The String arm of execute_command for a printable character (502-513).
print_character(t, c) ==
    LET wrapped == IF t.is_wrap_state_pending
                   THEN LET first == set_cursor_x_wrap(t, 0)
                        IN  [set_cursor_y_wrap(first, first.cursor.y + 1)
                                EXCEPT !.is_wrap_state_pending = FALSE]
                   ELSE t
        placed == [wrapped EXCEPT !.canvas =
                      MuxCanvas_set_cell(wrapped.canvas, wrapped.cursor,
                                         MuxCell(c, wrapped.current_style))]
    IN  set_cursor_x_pending_wrap(placed, placed.cursor.x + 1)

\* The loop of CSI n X (569-571): cells cursor + (0..number-1, 0).
RECURSIVE erase_cells(_, _, _, _, _)
erase_cells(c, cursor, style, x, number) ==
    IF x >= number THEN c
    ELSE erase_cells(MuxCanvas_set_cell(c, Vector2_add(cursor, Vector2(x, 0)),
                                        Cell_empty_styled(style)),
                     cursor, style, x + 1, number)

\* CSI n m (609-681) for the parameters 0 and 41: the default style, or the
\* style with background colour 1.
select_graphic_rendition(t, parameter) ==
    LET argument == unwrap_or(parameter, 0)
    IN  IF argument = 0 THEN [t EXCEPT !.current_style = Style_default]
        ELSE IF argument = 41 THEN [t EXCEPT !.current_style = 1]
        ELSE t

\* execute_command (487-695).  A CSI sequence whose final byte no branch
\* tests, "@" among them, is logged as unknown and changes nothing (682).
execute_command(t, cmd) ==
    IF cmd.kind = "String"
    THEN IF cmd.text = "\r" THEN set_cursor_x_wrap(t, 0)
         ELSE IF cmd.text = "\n"
         THEN LET first == set_cursor_x_wrap(t, 0)
              IN  set_cursor_y_wrap(first, first.cursor.y + 1)
         ELSE print_character(t, cmd.text)
    ELSE IF cmd.text = "C"
         THEN set_cursor_x_no_wrap(t, t.cursor.x + unwrap_or(cmd.parameter, 1))
    ELSE IF cmd.text = "D"
         THEN set_cursor_x_no_wrap(t, t.cursor.x - unwrap_or(cmd.parameter, 1))
    ELSE IF cmd.text = "G"
         THEN set_cursor_x_no_wrap(t, unwrap_or(cmd.parameter, 1) - 1)
    ELSE IF cmd.text = "X"
         THEN [t EXCEPT !.canvas = erase_cells(t.canvas, t.cursor, t.current_style, 0,
                                               unwrap_or(cmd.parameter, 1)),
                        !.is_wrap_state_pending = FALSE]
    ELSE IF cmd.text = "m" THEN select_graphic_rendition(t, cmd.parameter)
    ELSE t

\* The sizes of the emulators, the parameters of the CSI sequences and the
\* commands sent to an emulator.
TerminalSizes == {Vector2(2, 2), Vector2(1, 2)}
Parameters == {NoneId} \cup {Some(n) : n \in 0..MaxCount}
TerminalCommand_string(c) ==
    [kind |-> "String", text |-> c, parameter |-> NoneId, pending_before |-> FALSE]
TerminalCommand_csi(final, parameter) ==
    [kind |-> "Csi", text |-> final, parameter |-> parameter, pending_before |-> FALSE]
Commands ==
    {TerminalCommand_string(c) : c \in {"A", "\n"}}
    \cup {TerminalCommand_csi(f, p) : f \in {"D", "G", "X", "@"}, p \in Parameters}
    \cup {TerminalCommand_csi("m", p) : p \in {Some(0), Some(41)}}

InitTerm ==
    /\ \E sz \in TerminalSizes : info = TerminalInfo_new(sz)
    /\ command = NoCommand
    /\ screen = [cells |-> <<>>, size |-> Vector2_null]
    /\ screen_ret = [op |-> "new", position |-> Vector2_null, size |-> Vector2_null, cell |-> " "]

\* One command handed to the emulator of a pane.  The cursor column is kept
\* from running below -MaxCount.
ExecuteCommand(cmd) ==
    /\ execute_command(info, cmd).cursor.x >= -MaxCount
    /\ info' = execute_command(info, cmd)
    /\ command' = [cmd EXCEPT !.pending_before = info.is_wrap_state_pending]
    /\ UNCHANGED <<screen, screen_ret>>

NextTerm ==
    \E cmd \in Commands :
        ExecuteCommand(cmd) /\ UNCHANGED <<treeVars, layoutVars, canvasVars, drawVars, schedVars, paneVars, ptyVars, exitVars, raceVars, renderVars, lockVars>>

TermInit == InitTree /\ InitLayoutIdle /\ InitCanvasIdle /\ InitDraw /\ InitSched /\ InitPanes /\ InitPty /\ InitExit /\ InitRace /\ InitRender /\ InitLocks /\ InitTerm
SpecTerm == TermInit /\ [][NextTerm]_vars

\* The positions of a canvas, and whether a position is one of them.
GridPositions(sz) == {Vector2(x, y) : x \in 0..(sz.x - 1), y \in 0..(sz.y - 1)}
InGrid(position, sz) == position \in GridPositions(sz)
IsCsi(cmd, final) == cmd.kind = "Csi" /\ cmd.text = final
IsPrint(cmd) == cmd.kind = "String" /\ cmd.text = "A"

\* C23: erase-character (CSI n X) with the cursor at (x, y) sets the cells
\* (x..min(x+n, width)-1, y) to a space in the current style, leaves every
\* other cell unchanged, those of other rows included, leaves the cursor
\* where it is and clears the pending wrap.
C23_EraseCharacter ==
    [][(IsCsi(command', "X") /\ InGrid(info.cursor, info.canvas.size))
       => LET number == unwrap_or(command'.parameter, 1)
              last == Min(info.cursor.x + number, info.canvas.size.x) - 1
          IN  /\ \A p \in GridPositions(info.canvas.size) :
                    MuxCanvas_get_cell(info'.canvas, p) =
                        IF p.y = info.cursor.y /\ p.x >= info.cursor.x /\ p.x <= last
                        THEN Cell_empty_styled(info.current_style)
                        ELSE MuxCanvas_get_cell(info.canvas, p)
              /\ info'.cursor = info.cursor
              /\ ~info'.is_wrap_state_pending]_vars

\* C24: a character printed in the last column leaves the cursor in the last
\* column with the wrap pending; a character printed while the wrap is
\* pending goes to column 0 of the next row (the last row once the screen
\* has scrolled); CSI D and CSI X clear the pending wrap, and the character
\* printed after them is placed at the cursor, on the same row.
C24_PendingWrap ==
    [][/\ (IsPrint(command') /\ ~info.is_wrap_state_pending
            /\ InGrid(info.cursor, info.canvas.size)
            /\ info.cursor.x = info.canvas.size.x - 1)
          => info'.cursor = info.cursor /\ info'.is_wrap_state_pending
       /\ (IsPrint(command') /\ info.is_wrap_state_pending)
          => MuxCanvas_get_cell(info'.canvas,
                 Vector2(0, Min(info.cursor.y + 1, info.canvas.size.y - 1)))
             = MuxCell(command'.text, info.current_style)
       /\ (IsCsi(command', "D") \/ IsCsi(command', "X"))
          => ~info'.is_wrap_state_pending /\ info'.cursor.y = info.cursor.y
       /\ (IsPrint(command') /\ command.pending_before
            /\ (IsCsi(command, "D") \/ IsCsi(command, "X")))
          => MuxCanvas_get_cell(info'.canvas, info.cursor)
             = MuxCell(command'.text, info.current_style)]_vars

\* C25: insert-character (CSI n @) with the cursor at (x, y) puts n blank
\* cells in the current style at the cursor, moves the cells of row y from
\* column x on right by n, drops what passes the right edge, and leaves the
\* cursor and every other row unchanged.
C25_InsertCharacter ==
    [][(IsCsi(command', "@") /\ InGrid(info.cursor, info.canvas.size))
       => LET number == unwrap_or(command'.parameter, 1)
          IN  /\ \A p \in GridPositions(info.canvas.size) :
                    MuxCanvas_get_cell(info'.canvas, p) =
                        IF p.y = info.cursor.y /\ p.x >= info.cursor.x
                        THEN IF p.x < info.cursor.x + number
                             THEN Cell_empty_styled(info.current_style)
                             ELSE MuxCanvas_get_cell(info.canvas,
                                      Vector2(p.x - number, p.y))
                        ELSE MuxCanvas_get_cell(info.canvas, p)
              /\ info'.cursor = info.cursor]_vars

---------------------------------------------------------------------------
(* draw.rs: find_span_dimensions, the rectangles draw_node and the cursor  *)
(* placement use.                                                          *)

\* (p as f64 * (w / total)).ceil() and .round() in IEEE-754 doubles, as for
\* f64_floor_mul: where p*w/total is an integer the product can land just
\* above it and ceil() gains one, and where it is an integer and a half the
\* product can land just below and round() loses one.  These are all such
\* triples with p <= 200, w <= 10, total <= 40; none has w = 1.
F64RoundsAbove ==
    {<<77, 9, 11>>, <<143, 9, 11>>, <<154, 9, 11>>, <<108, 7, 12>>, <<42, 9, 14>>,
     <<84, 9, 14>>, <<98, 9, 14>>, <<154, 9, 14>>, <<168, 9, 14>>, <<182, 9, 14>>,
     <<196, 9, 14>>, <<85, 3, 17>>, <<170, 3, 17>>, <<85, 6, 17>>, <<170, 6, 17>>,
     <<154, 9, 22>>, <<25, 7, 25>>, <<50, 7, 25>>, <<75, 7, 25>>, <<100, 7, 25>>,
     <<150, 7, 25>>, <<175, 7, 25>>, <<200, 7, 25>>, <<84, 9, 28>>, <<168, 9, 28>>,
     <<196, 9, 28>>, <<87, 5, 29>>, <<174, 5, 29>>, <<87, 10, 29>>, <<174, 10, 29>>,
     <<93, 9, 31>>, <<186, 9, 31>>, <<170, 3, 34>>, <<85, 6, 34>>, <<170, 6, 34>>}
F64RoundsBelowHalf ==
    {<<45, 7, 10>>, <<85, 7, 10>>, <<165, 7, 10>>, <<175, 7, 10>>, <<90, 7, 20>>,
     <<170, 7, 20>>, <<55, 3, 22>>, <<99, 3, 22>>, <<187, 3, 22>>, <<180, 7, 40>>}

f64_ceil_mul(p, w, total) ==
    ((p * w + total - 1) \div total)
    + (IF <<p, w, total>> \in F64RoundsAbove THEN 1 ELSE 0)
\* f64::round rounds halves away from zero.
f64_round_mul(p, w, total) ==
    ((2 * p * w + total) \div (2 * total))
    - (IF <<p, w, total>> \in F64RoundsBelowHalf THEN 1 ELSE 0)

\* The size given to child i (lines 52-65): ceil for the last child, round
\* for the others of a Horizontal span, floor for the others of a Vertical
\* one.
find_child_size(span, parent_dimensions, i) ==
    LET total == SumSeq(Weights(span.children))
        w == span.children[i].size
        is_last == i = Len(span.children)
    IN  IF span.direction = "Horizontal"
        THEN Vector2(IF is_last THEN f64_ceil_mul(parent_dimensions.size.x, w, total)
                     ELSE f64_round_mul(parent_dimensions.size.x, w, total),
                     parent_dimensions.size.y)
        ELSE Vector2(parent_dimensions.size.x,
                     IF is_last THEN f64_ceil_mul(parent_dimensions.size.y, w, total)
                     ELSE f64_floor_mul(parent_dimensions.size.y, w, total))

\* The position of child i (lines 66-72): last_position moved on by
\* last_size, from the parent's position.
RECURSIVE find_child_position(_, _, _)
find_child_position(span, parent_dimensions, i) ==
    IF i = 1 THEN parent_dimensions.position
    ELSE LET last_position == find_child_position(span, parent_dimensions, i - 1)
             last_size == find_child_size(span, parent_dimensions, i - 1)
         IN  IF span.direction = "Horizontal"
             THEN Vector2(last_position.x + last_size.x, last_position.y)
             ELSE Vector2(last_position.x, last_position.y + last_size.y)

RECURSIVE find_span_dimensions(_, _, _)
RECURSIVE find_in_span(_, _, _, _)
find_in_span(span, index, span_id, parent_dimensions) ==
    IF index > Len(span.children) THEN NoneRect
    ELSE LET sub_dim == find_span_dimensions(span.children[index].node, span_id,
                            [position |-> find_child_position(span, parent_dimensions, index),
                             size |-> find_child_size(span, parent_dimensions, index)])
         IN  IF sub_dim.some THEN sub_dim
             ELSE find_in_span(span, index + 1, span_id, parent_dimensions)

find_span_dimensions(node, span_id, parent_dimensions) ==
    IF node.id = span_id THEN Some(parent_dimensions)
    ELSE IF node.data.kind = "Span"
         THEN find_in_span(node.data, 1, span_id, parent_dimensions)
         ELSE NoneRect

\* C27: for every tree, leaf and root rectangle the rectangle of
\* find_span_dimensions is the rectangle of get_span_dimensions, and it lies
\* inside the root rectangle.
C27_CompositorMatchesLayout ==
    root_node.some =>
        \A id \in LeafIds(root_node.val) :
            LET found == find_span_dimensions(root_node.val, id, get_root_dimensions(size))
            IN  /\ found = get_span_dimensions(root_node.val, id, get_root_dimensions(size))
                /\ found.some /\ RectInside(found.val, get_root_dimensions(size))

---------------------------------------------------------------------------
(* term.rs: TerminalInfo::set_size and TerminalInfo::draw, copying the     *)
(* snapshot of a pane into the view of its interior.  Checked under        *)
(* SpecPaneDraw.                                                           *)

MIN_TERMINAL_SIZE == Vector2(5, 5)

\* TerminalInfo::set_size (82-89): the size the emulator takes.
TerminalInfo_set_size(sz) == Vector2_max(sz, MIN_TERMINAL_SIZE)

\* SurfaceView::set_size (view.rs 36-38) over Rect::set_size (rect.rs 37-39).
SurfaceView_set_size(rect, sz) == [rect EXCEPT !.size = Vector2_max(sz, Vector2_null)]

\* The loops of TerminalInfo::draw (105-128): every cell of the emulator's
\* screen is set on the surface, blank cells too.  The cells set are all of
\* one kind here, so the loops leave cell i changed exactly if one of their
\* set_cell calls changes it.
draw_cells(c, vs, sz, cell) ==
    [c EXCEPT !.cells =
        [i \in 1..Len(c.cells) |->
            IF \E q \in GridPositions(sz) :
                   Surface_set_cell(c, vs, Len(vs), q, cell).cells[i] # c.cells[i]
            THEN cell ELSE c.cells[i]]]

\* TerminalInfo::draw (100-130): the surface is given the size of the
\* emulator's screen, then every cell is copied.
TerminalInfo_draw(c, vs, terminal_size, cell) ==
    LET resized == [vs EXCEPT ![Len(vs)] = SurfaceView_set_size(@, terminal_size)]
    IN  [canvas |-> draw_cells(c, resized, terminal_size, cell), views |-> resized]

\* The interior of a pane: its rectangle shrunk by one cell on all sides.
Interior(rect) ==
    Rect(Vector2_add(rect.position, Vector2(1, 1)),
         Vector2(rect.size.x - 2, rect.size.y - 2))

\* The border of a pane: the cells of its rectangle outside its interior.
OnBorder(rect, p) ==
    /\ InSize(rect.size, Vector2(p.x - rect.position.x, p.y - rect.position.y))
    /\ ~InSize(Interior(rect).size,
               Vector2(p.x - Interior(rect).position.x, p.y - Interior(rect).position.y))

\* The frame canvas and the rectangles of the panes drawn on it.
FrameSize == Vector2(8, 7)
PaneRects ==
    {Rect(Vector2(0, 0), Vector2(8, 7)), Rect(Vector2(0, 0), Vector2(4, 7)),
     Rect(Vector2(4, 0), Vector2(4, 7)), Rect(Vector2(0, 0), Vector2(8, 3)),
     Rect(Vector2(0, 3), Vector2(8, 4)), Rect(Vector2(0, 0), Vector2(2, 2))}

InitPaneDraw ==
    /\ canvas = Canvas_new(FrameSize)
    /\ c_ret = CanvasCall("new", TRUE)
    /\ views = <<>>
    /\ overflow_checks = FALSE
    /\ panicked = FALSE

\* The border of a pane is drawn and the view of its interior is taken.
DrawBorder(rect) ==
    /\ views = <<>>
    /\ canvas' = [canvas EXCEPT !.cells =
                     [i \in 1..Len(canvas.cells) |->
                         IF OnBorder(rect, Vector2((i - 1) % canvas.size.x,
                                                   (i - 1) \div canvas.size.x))
                         THEN "#" ELSE canvas.cells[i]]]
    /\ views' = <<Interior(rect)>>
    /\ c_ret' = CanvasCall("to_sub_view", TRUE)
    /\ UNCHANGED <<overflow_checks, panicked>>

\* The emulator is given the size of the interior and draws its snapshot,
\* cells of one kind, into the view.
DrawSnapshot(cell) ==
    /\ views # <<>>
    /\ c_ret.op = "to_sub_view"
    /\ LET drawn == TerminalInfo_draw(canvas, views,
                        TerminalInfo_set_size(views[Len(views)].size), cell)
       IN  canvas' = drawn.canvas /\ views' = drawn.views
    /\ c_ret' = CanvasCall("draw", TRUE)
    /\ UNCHANGED <<overflow_checks, panicked>>

NextPaneDraw ==
    \/ \E rect \in PaneRects :
           DrawBorder(rect) /\ UNCHANGED <<treeVars, layoutVars, drawVars, schedVars, paneVars, ptyVars, exitVars, raceVars, renderVars, termVars, lockVars>>
    \/ \E cell \in Cells :
           DrawSnapshot(cell) /\ UNCHANGED <<treeVars, layoutVars, drawVars, schedVars, paneVars, ptyVars, exitVars, raceVars, renderVars, termVars, lockVars>>
    \/ DropView /\ UNCHANGED <<treeVars, layoutVars, drawVars, schedVars, paneVars, ptyVars, exitVars, raceVars, renderVars, termVars, lockVars>>

PaneDrawInit == InitTree /\ InitLayoutIdle /\ InitPaneDraw /\ InitDraw /\ InitSched /\ InitPanes /\ InitPty /\ InitExit /\ InitRace /\ InitRender /\ InitLocks /\ InitTermIdle
SpecPaneDraw == PaneDrawInit /\ [][NextPaneDraw]_vars

---------------------------------------------------------------------------
(* canvas.rs: the Canvas of src/canvas.rs that draw.rs composes a frame    *)
(* on.  Checked under SpecScreen.                                          *)

\* Canvas::put_canvas (141-149): every cell of the other canvas is read and
\* set at its position moved by `position`; k counts the cells row by row.
RECURSIVE put_cells(_, _, _, _)
put_cells(c, other, position, k) ==
    IF k >= other.size.x * other.size.y THEN c
    ELSE LET pos == Vector2(k % other.size.x, k \div other.size.x)
         IN  put_cells(MuxCanvas_set_cell(c, Vector2_add(pos, position),
                                          MuxCanvas_get_cell(other, pos)),
                       other, position, k + 1)
MuxCanvas_put_canvas(c, other, position) == put_cells(c, other, position, 0)

\* The frame canvas, the positions handed to it and the canvases put on it.
ScreenSize == Vector2(3, 2)
ScreenCells == {MuxCell_default, MuxCell("A", Style_default)}
ScreenPositions == {Vector2(x, y) : x \in (-1)..4, y \in (-1)..2}
PutCanvases ==
    {MuxCanvas_new_filled(sz, cell) :
        sz \in {Vector2(1, 1), Vector2(2, 1), Vector2(2, 2)}, cell \in ScreenCells}
ScreenCall(op, position, sz, cell) ==
    [op |-> op, position |-> position, size |-> sz, cell |-> cell]

InitScreen ==
    /\ screen = MuxCanvas_new_filled(ScreenSize, MuxCell_default)
    /\ screen_ret = ScreenCall("new", Vector2_null, ScreenSize, " ")
    /\ info = [canvas |-> [cells |-> <<>>, size |-> Vector2_null], cursor |-> Vector2_null,
               current_style |-> 0, is_wrap_state_pending |-> FALSE]
    /\ command = NoCommand

ScreenSetCell(position, cell) ==
    /\ screen' = MuxCanvas_set_cell(screen, position, cell)
    /\ screen_ret' = ScreenCall("set_cell", position, Vector2(1, 1), cell)
    /\ UNCHANGED <<info, command>>

ScreenGetCell(position) ==
    /\ screen_ret' = ScreenCall("get_cell", position, Vector2(1, 1),
                                MuxCanvas_get_cell(screen, position))
    /\ UNCHANGED <<screen, info, command>>

\* draw_node (draw.rs 161-162): the canvas of a pane is put on the frame.
ScreenPutCanvas(other, position) ==
    /\ screen' = MuxCanvas_put_canvas(screen, other, position)
    /\ screen_ret' = ScreenCall("put_canvas", position, other.size,
                                MuxCanvas_get_cell(other, Vector2_null))
    /\ UNCHANGED <<info, command>>

NextScreen ==
    \/ \E p \in ScreenPositions, cell \in ScreenCells :
           ScreenSetCell(p, cell) /\ UNCHANGED <<treeVars, layoutVars, canvasVars, drawVars, schedVars, paneVars, ptyVars, exitVars, raceVars, renderVars, lockVars>>
    \/ \E p \in ScreenPositions :
           ScreenGetCell(p) /\ UNCHANGED <<treeVars, layoutVars, canvasVars, drawVars, schedVars, paneVars, ptyVars, exitVars, raceVars, renderVars, lockVars>>
    \/ \E other \in PutCanvases, p \in ScreenPositions :
           ScreenPutCanvas(other, p) /\ UNCHANGED <<treeVars, layoutVars, canvasVars, drawVars, schedVars, paneVars, ptyVars, exitVars, raceVars, renderVars, lockVars>>

ScreenInit == InitTree /\ InitLayoutIdle /\ InitCanvasIdle /\ InitDraw /\ InitSched /\ InitPanes /\ InitPty /\ InitExit /\ InitRace /\ InitRender /\ InitLocks /\ InitScreen
SpecScreen == ScreenInit /\ [][NextScreen]_vars

\* A position right of the canvas, in one of its rows.
RightOfCanvas(position) ==
    position.x >= screen.size.x /\ position.y >= 0 /\ position.y < screen.size.y

\* C29: on the Canvas of src/canvas.rs set_cell at a position with
\* x >= size.x and y < size.y changes no cell, get_cell there returns the
\* default cell, and put_canvas of a canvas that overhangs the right edge
\* changes no cell outside the rectangle the canvas is put on, so none of the
\* following row.
C29_RightEdgeIsInert ==
    [][/\ (screen_ret'.op = "set_cell" /\ RightOfCanvas(screen_ret'.position))
          => screen' = screen
       /\ (screen_ret'.op = "get_cell" /\ RightOfCanvas(screen_ret'.position))
          => screen_ret'.cell = MuxCell_default
       /\ screen_ret'.op = "put_canvas"
          => \A p \in GridPositions(screen.size) :
                 MuxCanvas_get_cell(screen', p) # MuxCanvas_get_cell(screen, p)
                     => InSize(screen_ret'.size,
                               Vector2(p.x - screen_ret'.position.x,
                                       p.y - screen_ret'.position.y))]_vars

---------------------------------------------------------------------------
(* draw.rs: a draw whose write to the terminal fails.  Checked under       *)
(* SpecWrite.                                                              *)

\* The baseline is assigned while the bytes are being collected (line 241);
\* stdout.write or stdout.flush (275-276) then returns an error, which `?`
\* hands to draw_loop; handle_loop logs it and starts draw_loop again.
baseline_before_write(last, new_canvas) ==
    IF frames_differ(last, new_canvas) THEN new_canvas ELSE last

DrawWriteFails(new_canvas, cursor) ==
    /\ size' = new_canvas.size
    /\ stdout' = <<>>
    /\ last_canvas' = baseline_before_write(last_canvas, new_canvas)
    /\ write_result' = "Err"
    /\ UNCHANGED <<written_frame, root_node, active_id, span_id_counter, exited, tasks, ret>>

\* The frames composed here: those of one row and at most two columns.
WriteFrames == {f \in Frames : f.size.y = 1 /\ f.size.x <= 2}

NextWrite ==
    \/ \E new_canvas \in WriteFrames, cursor \in Cursors :
           Draw(new_canvas, cursor) /\ UNCHANGED <<layoutVars, canvasVars, schedVars, paneVars, ptyVars, exitVars, raceVars, renderVars, termVars, lockVars>>
    \/ \E new_canvas \in WriteFrames, cursor \in Cursors :
           DrawWriteFails(new_canvas, cursor) /\ UNCHANGED <<layoutVars, canvasVars, schedVars, paneVars, ptyVars, exitVars, raceVars, renderVars, termVars, lockVars>>

SpecWrite == Init /\ [][NextWrite]_vars

\* C30: the baseline of the next diff is replaced by the new frame only when
\* the bytes of that frame were written; after a failed write or flush it is
\* still the last frame that was written.
C30_BaselineIsWrittenFrame == last_canvas = written_frame

---------------------------------------------------------------------------
(* The active id and the panes of the tree.                                *)

\* C35: after any sequence of create_span and remove_node_from_state calls
\* (kill_active_span is the latter with the active id) that has not emptied
\* the tree, the active id is the id of a leaf of the tree: never the id of
\* a Span container, never an id that no node carries.
C35_ActiveIsLeaf ==
    (root_node.some /\ ~exited) => active_id \in LeafIds(root_node.val)

---------------------------------------------------------------------------
(* create_span of an input handler next to kill_span of the active pane,   *)
(* step by step: the loads and stores of active_id are single atomic       *)
(* operations (Ordering::Relaxed), the tree changes under its lock.        *)

\* The trees are built by calls that run alone.
BuildSpan ==
    /\ killing.pc = "idle"
    /\ \A c \in Creators : creating[c].pc = "idle"
    /\ CreateSpan
    /\ UNCHANGED raceVars

\* spawn.rs 18-21: create_span loads the active id.
CreateLoad ==
    /\ ~exited
    /\ root_node.some
    /\ \A c \in Creators : creating[c].pc = "idle"
    /\ killing.pc \in {"idle", "removed"}
    /\ span_id_counter + 2 <= MaxId
    /\ creating' = [creating EXCEPT !["first"] =
                       [NotCreating EXCEPT !.pc = "loaded", !.active = active_id]]
    /\ killing' = [killing EXCEPT !.overlapped = @ \/ killing.pc = "removed"]
    /\ ret' = Call("load", active_id, TRUE, NoneId)
    /\ UNCHANGED <<root_node, active_id, span_id_counter, size, exited, tasks>>

\* spawn.rs 22-31: new_id is taken from the counter and stored as the
\* active id; the root rectangle is read.
CreateStore ==
    /\ ~exited
    /\ creating["first"].pc = "loaded"
    /\ creating' = [creating EXCEPT !["first"] =
                       [pc |-> "started", active |-> creating["first"].active,
                        new_id |-> fetch_add_plus_one(span_id_counter),
                        root_rect |-> get_root_dimensions(size)]]
    /\ span_id_counter' = span_id_counter + 1
    /\ active_id' = fetch_add_plus_one(span_id_counter)
    /\ ret' = Call("fetch_add", creating["first"].active, TRUE,
                   Some(fetch_add_plus_one(span_id_counter)))
    /\ UNCHANGED <<root_node, size, exited, tasks, killing>>

\* spawn.rs 32-211: the rest of create_span, once the lock of the root is
\* free.
CreateLocked ==
    /\ killing.pc # "removed"
    /\ CreateFinish("first")

\* The pane that is active when the two calls meet: the one create_span
\* loaded, if it has loaded one.
MeetingActive == IF creating["first"].pc = "idle" THEN active_id ELSE creating["first"].active

\* process.rs 202-213 and spawn.rs 341-346, 381-390: the process of the
\* active pane has ended, its task calls kill_span with its own id, and
\* remove_node changes the tree under the lock of the root.
KillRemove ==
    /\ ~exited
    /\ killing.pc = "idle"
    /\ root_node.some
    /\ MeetingActive \in tasks
    /\ MeetingActive \in LeafIds(root_node.val)
    /\ \A c \in Creators : creating[c].pc = "started" => c = "first"
    /\ LET r == remove_node(root_node.val, MeetingActive)
       IN  /\ root_node' = Some(r.root)
           /\ exited' = (r.ok /\ ~r.value.some)
           /\ killing' = [pc |-> IF r.ok /\ r.value.some THEN "removed" ELSE "done",
                          span_id |-> MeetingActive,
                          new_active |-> r.value,
                          overlapped |-> creating["first"].pc # "idle"]
           /\ ret' = Call("remove_node", MeetingActive, r.ok, r.value)
    /\ UNCHANGED <<active_id, span_id_counter, size, tasks, creating>>

\* spawn.rs 391-396: the id remove_node returned is stored as the active
\* id, and the lock of the root is dropped.
KillStore ==
    /\ ~exited
    /\ killing.pc = "removed"
    /\ active_id' = killing.new_active.val
    /\ killing' = [killing EXCEPT !.pc = "done"]
    /\ ret' = Call("remove_node_from_state", killing.span_id, TRUE, killing.new_active)
    /\ UNCHANGED <<root_node, span_id_counter, size, exited, tasks, creating>>

NextKill ==
    \/ update_size /\ UNCHANGED <<layoutVars, canvasVars, drawVars, schedVars, paneVars, ptyVars, exitVars, raceVars, renderVars, termVars, lockVars>>
    \/ BuildSpan /\ UNCHANGED <<layoutVars, canvasVars, drawVars, schedVars, paneVars, ptyVars, exitVars, renderVars, termVars, lockVars>>
    \/ CreateLoad /\ UNCHANGED <<layoutVars, canvasVars, drawVars, schedVars, paneVars, ptyVars, exitVars, renderVars, termVars, lockVars>>
    \/ CreateStore /\ UNCHANGED <<layoutVars, canvasVars, drawVars, schedVars, paneVars, ptyVars, exitVars, renderVars, termVars, lockVars>>
    \/ CreateLocked /\ UNCHANGED <<layoutVars, canvasVars, drawVars, schedVars, paneVars, ptyVars, exitVars, renderVars, termVars, lockVars>>
    \/ KillRemove /\ UNCHANGED <<layoutVars, canvasVars, drawVars, schedVars, paneVars, ptyVars, exitVars, renderVars, termVars, lockVars>>
    \/ KillStore /\ UNCHANGED <<layoutVars, canvasVars, drawVars, schedVars, paneVars, ptyVars, exitVars, renderVars, termVars, lockVars>>

SpecKill == Init /\ [][NextKill]_vars

\* C39: when create_span runs at the same time as kill_span of the pane
\* that was active when they met, then, whatever the order of their steps,
\* once both have returned the active id is the id of a leaf of the tree.
C39_ActiveIsLeafAfterRace ==
    (/\ killing.pc = "done"
     /\ killing.overlapped
     /\ \A c \in Creators : creating[c].pc = "idle"
     /\ root_node.some
     /\ ~exited)
    => active_id \in LeafIds(root_node.val)

---------------------------------------------------------------------------
(* The process list and the leaves of the tree.                            *)

\* C36: between the calls of create_process and kill_span, the span ids of
\* the process list are the ids of the leaves of the tree, also after a
\* create_process whose child was not spawned and after a kill_span with an
\* id that is no leaf.
C36_ProcessesAreLeaves ==
    ~exited => processes = (IF root_node.some THEN LeafIds(root_node.val) ELSE {})

\* C37: a kill_span takes at most one pane out of the tree, and it invokes
\* exit only when the tree holds no pane but the one it removes and the
\* process list holds no process of another pane.
C37_ExitOnlyForLastPane ==
    [][(root_node.some /\ ~exited /\ IsCall("remove_node_from_state") /\ ret'.ok)
       => /\ Cardinality(LeafIds(root_node.val) \ LeafIds(root_node'.val)) <= 1
          /\ exited' => /\ LeafIds(root_node.val) \subseteq {ret'.arg}
                        /\ processes \subseteq {ret'.arg}]_vars

---------------------------------------------------------------------------
(* draw.rs: one pass of draw_loop over the panes, their emulators and      *)
(* their PTYs.  Checked under SpecRender.                                  *)

\* The leaves in the order draw_node visits them (draw.rs 95-101).
RECURSIVE LeafSeq(_)
ConcatAll(seqs) ==
    LET RECURSIVE cat(_)
        cat(k) == IF k = 0 THEN <<>> ELSE cat(k - 1) \o seqs[k]
    IN  cat(Len(seqs))
LeafSeq(node) ==
    IF node.data.kind = "Void" THEN <<node.id>>
    ELSE ConcatAll([i \in 1..Len(node.data.children) |->
                       LeafSeq(node.data.children[i].node)])

\* draw.rs 104-107 and 138: the rectangle of a leaf on a frame of this
\* size, and the size of the canvas its content is drawn on.
leaf_dimensions(root, id, sz) == find_span_dimensions(root, id, Rect(Vector2_null, sz))
proc_canvas_size(dimensions) == Vector2(dimensions.size.x - 2, dimensions.size.y - 2)

\* tty_windows.rs 259-272, WinPTY::set_size: the error of
\* ResizePseudoConsole is logged, the size is stored and Ok is returned.
WinPTY_set_size_propagates(sz, old, os_ok) == [ok |-> os_ok, size |-> IF os_ok THEN sz ELSE old]
WinPTY_set_size(sz, old, os_ok) == [ok |-> TRUE, size |-> sz]

\* draw.rs 27: the PTY is resized when its size is not the size wanted.
size_differs_always(terminal_size, sz) == TRUE
size_differs(terminal_size, sz) == terminal_size # sz

\* draw.rs 19-34, draw_node_content on the process of one pane: the
\* emulator takes the size of the content canvas (term.rs 82-89), the PTY
\* is resized when its size differs, and `?` hands an error of the resize
\* to the caller.
draw_node_content(emulator, terminal_size, sz, os_ok) ==
    LET set == WinPTY_set_size(sz, terminal_size, os_ok)
        called == size_differs(terminal_size, sz)
    IN  [ok |-> (called => set.ok),
         emulator |-> TerminalInfo_set_size(sz),
         terminal_size |-> IF called THEN set.size ELSE terminal_size,
         resized |-> called]

\* draw.rs 93-167, draw_node over the leaves from the k-th on: a leaf whose
\* rectangle is not found or whose content fails ends the walk with an
\* error; a leaf is composited when both put_canvas calls of lines 161-162
\* are reached.  `failing` are the panes whose ResizePseudoConsole fails.
RECURSIVE draw_node(_, _, _, _, _, _)
draw_node(root, leaves, k, sz, failing, acc) ==
    IF k > Len(leaves) THEN acc
    ELSE LET id == leaves[k]
             dimensions == leaf_dimensions(root, id, sz)
         IN
         IF ~dimensions.some THEN [acc EXCEPT !.ok = FALSE]
         ELSE IF id \notin processes
         THEN draw_node(root, leaves, k + 1, sz, failing,
                        [acc EXCEPT !.composited = @ \cup {id}])
         ELSE LET content == draw_node_content(acc.emulator_size[id], acc.pty_size[id],
                                               proc_canvas_size(dimensions.val),
                                               id \notin failing)
                  next == [acc EXCEPT !.emulator_size[id] = content.emulator,
                                      !.pty_size[id] = content.terminal_size,
                                      !.resized = IF content.resized THEN @ \cup {id} ELSE @]
              IN  IF ~content.ok THEN [next EXCEPT !.ok = FALSE]
                  ELSE draw_node(root, leaves, k + 1, sz, failing,
                                 [next EXCEPT !.composited = @ \cup {id}])

\* draw.rs 245-274: the cursor of the active pane.  `offset` is the cursor
\* position its emulator reports and `visible` its visibility flag.
cursor_of_active(root, active, sz, offset, visible) ==
    IF active \in processes /\ visible /\ root.some
       /\ leaf_dimensions(root.val, active, sz).some
    THEN Some(Vector2_add(Vector2_add(leaf_dimensions(root.val, active, sz).val.position,
                                      offset), Vector2(1, 1)))
    ELSE [some |-> FALSE, val |-> Vector2_null]

\* Cursor positions an emulator of this size reports: its corners.
CursorOffsets(emulator) ==
    {Vector2_null, Vector2(Max(emulator.x, 1) - 1, Max(emulator.y, 1) - 1)}

\* Another operation than a draw has run: what the last draw did is
\* forgotten, and the next draw is not a repetition of it.
Stale == rendered' = NotRendered

\* spawn.rs 214-271: the process is spawned with a PTY of 1x1, its
\* emulator is TerminalInfo::new(1x1).
SpawnPane ==
    /\ root_node.some => Cardinality(LeafIds(root_node.val)) < MaxRenderPanes
    /\ CreateProcess
    /\ IF ret'.ok
       THEN /\ emulator_size' = [emulator_size EXCEPT ![ret'.value.val] =
                                    TerminalInfo_set_size(Vector2(1, 1))]
            /\ pty_size' = [pty_size EXCEPT ![ret'.value.val] = Vector2(1, 1)]
       ELSE UNCHANGED <<emulator_size, pty_size>>
    /\ Stale

\* create_process whose child is not spawned: a leaf without a process.
SpawnFails ==
    /\ Cardinality(LeafIds(root_node.val)) < MaxRenderPanes
    /\ CreateProcessSpawnFails
    /\ Stale
    /\ UNCHANGED <<emulator_size, pty_size>>

\* A pane's process ends and its task calls kill_span, or Alt+q calls
\* kill_active_span; followed here for the first removal of a run.
\* spawn.rs 353-375: the Process leaves the list and its
\* emulator and PTY are dropped with it.
RenderKillSpan(span_id) ==
    /\ span_id \in processes \cup {active_id}
    /\ redrawn = {}
    /\ kill_span(span_id)
    /\ emulator_size' = [p \in 1..MaxId |-> IF p \in processes \ processes'
                                            THEN Vector2_null ELSE emulator_size[p]]
    /\ pty_size' = [p \in 1..MaxId |-> IF p \in processes \ processes'
                                       THEN Vector2_null ELSE pty_size[p]]
    /\ Stale
    /\ UNCHANGED pane_task

\* draw.rs 281-292 and 169-278: one pass of draw_loop.  The terminal size is
\* read and stored, the leaves are composited, the frame is rendered, the
\* cursor is placed and the bytes are written; an error of draw_node ends
\* the pass before anything is written.
RenderDraw(sz, failing, visible) ==
    /\ ~exited
    /\ LET start == [ok |-> TRUE, emulator_size |-> emulator_size, pty_size |-> pty_size,
                     resized |-> {}, composited |-> {}]
       IN  \E walk \in {IF root_node.some
                        THEN draw_node(root_node.val, LeafSeq(root_node.val), 1, sz,
                                       failing, start)
                        ELSE start} :
           /\ size' = sz
           /\ emulator_size' = walk.emulator_size
           /\ pty_size' = walk.pty_size
           /\ \E offset \in CursorOffsets(walk.emulator_size[IF active_id \in 1..MaxId
                                                             THEN active_id ELSE 1]) :
                 rendered' =
                     [drawn |-> TRUE,
                      fresh |-> rendered.drawn /\ sz = size,
                      resized |-> walk.resized,
                      failed |-> failing \cap walk.resized,
                      composited |-> walk.composited,
                      written |-> walk.ok,
                      cursor |-> IF walk.ok
                                 THEN cursor_of_active(root_node, active_id, sz, offset, visible)
                                 ELSE [some |-> FALSE, val |-> Vector2_null],
                      offset |-> offset,
                      visible |-> visible]
    /\ ret' = Call("draw", 0, rendered'.written, NoneId)
    /\ UNCHANGED <<root_node, active_id, span_id_counter, exited, tasks, paneVars, schedVars>>

NextRender ==
    \/ SpawnPane /\ UNCHANGED <<layoutVars, canvasVars, drawVars, ptyVars, exitVars, raceVars, termVars, lockVars>>
    \/ SpawnFails /\ UNCHANGED <<layoutVars, canvasVars, drawVars, ptyVars, exitVars, raceVars, termVars, lockVars>>
    \/ \E span_id \in 1..MaxId :
           RenderKillSpan(span_id) /\ UNCHANGED <<layoutVars, canvasVars, drawVars, ptyVars, exitVars, raceVars, termVars, lockVars>>
    \/ \E s \in TermSizes, visible \in BOOLEAN,
          failing \in {{}} \cup {{p} : p \in processes} :
           RenderDraw(Vector2(s[1], s[2]), failing, visible)
               /\ UNCHANGED <<layoutVars, canvasVars, drawVars, ptyVars, exitVars, raceVars, termVars, lockVars>>

SpecRender == Init /\ [][NextRender]_vars

\* The panes a draw of this tree composites, and those of them with a
\* process.
DrawnLeaves == IF root_node.some THEN LeafIds(root_node.val) ELSE {}
DrawnPanes == DrawnLeaves \cap processes

\* C33: when the resize of a pane's PTY fails during a draw, the draw still
\* completes: every pane of the tree is composited and the frame is written
\* to the terminal.
C33_ResizeErrorKeepsDraw ==
    (rendered.drawn /\ rendered.failed # {})
    => /\ rendered.written
       /\ rendered.composited = DrawnLeaves

\* A draw during which the resize of one pane failed and another pane was
\* composited after it.
C33_Witness ==
    /\ rendered.drawn
    /\ rendered.failed # {}
    /\ rendered.written
    /\ \E p \in rendered.failed :
           \E k, l \in 1..Len(LeafSeq(root_node.val)) :
               /\ k < l
               /\ LeafSeq(root_node.val)[k] = p
               /\ LeafSeq(root_node.val)[l] \in rendered.composited

\* C32: during a draw the PTY of a pane is resized exactly when the size of
\* the pane's interior differs from the size the PTY holds, and a draw that
\* follows a draw with the same tree and terminal size resizes no PTY.
C32_ResizeOnlyOnChange ==
    [][rendered'.drawn
       => /\ rendered'.resized =
                 {p \in DrawnPanes :
                     proc_canvas_size(leaf_dimensions(root_node.val, p, size').val)
                         # pty_size[p]}
          /\ \A p \in DrawnPanes :
                 pty_size'[p] = proc_canvas_size(leaf_dimensions(root_node.val, p, size').val)
          /\ (rendered.drawn /\ size' = size) => rendered'.resized = {}]_vars

\* A second draw of two panes with the same terminal size, right after a
\* draw that resized both PTYs.
C32_Witness ==
    /\ rendered.drawn
    /\ rendered.fresh
    /\ rendered.resized = {}
    /\ Cardinality(DrawnPanes) = 2

\* The interior of a pane: the cells inside its border.
InInterior(dimensions, position) ==
    /\ dimensions.position.x + 1 <= position.x
    /\ position.x <= dimensions.position.x + dimensions.size.x - 2
    /\ dimensions.position.y + 1 <= position.y
    /\ position.y <= dimensions.position.y + dimensions.size.y - 2

\* C31: at the end of a draw the cursor is shown exactly when the active id
\* names a pane with a process whose emulator reports the cursor visible
\* and whose rectangle is found; it is then at the rectangle's position
\* plus the emulator's cursor offset plus (1,1), a cell of the pane's
\* interior.
C31_CursorInInterior ==
    (rendered.drawn /\ rendered.written)
    => LET found == /\ active_id \in processes
                    /\ rendered.visible
                    /\ root_node.some
                    /\ leaf_dimensions(root_node.val, active_id, size).some
       IN  /\ rendered.cursor.some <=> found
           /\ found =>
                 LET dimensions == leaf_dimensions(root_node.val, active_id, size).val
                 IN  /\ rendered.cursor.val =
                            Vector2_add(Vector2_add(dimensions.position, rendered.offset),
                                        Vector2(1, 1))
                     /\ InInterior(dimensions, rendered.cursor.val)

\* The same without the last clause: when the cursor is shown and where.
C31_CursorPlacement ==
    (rendered.drawn /\ rendered.written)
    => LET found == /\ active_id \in processes
                    /\ rendered.visible
                    /\ root_node.some
                    /\ leaf_dimensions(root_node.val, active_id, size).some
       IN  /\ rendered.cursor.some <=> found
           /\ found =>
                 rendered.cursor.val =
                     Vector2_add(Vector2_add(leaf_dimensions(root_node.val, active_id, size).val.position,
                                             rendered.offset),
                                 Vector2(1, 1))

---------------------------------------------------------------------------
(* The locks of State and of the Processes, as the tasks take and release  *)
(* them.  What a task does under its locks is followed by the other        *)
(* specifications; here a change of the state is a count.  `lock()` and    *)
(* `write()` take a lock alone, `read()` shares it with other readers.     *)
(* Checked under SpecLocks and SpecLocksFair.                              *)

Acquire(name, pane, mode, mark) ==
    [op |-> "acquire", locks |-> {<<name, pane>>}, mode |-> mode, mark |-> mark]
Release(locks, mark) ==
    [op |-> "release", locks |-> locks, mode |-> "none", mark |-> mark]

\* draw.rs 7-17, find_process_by_id: the list is cloned under its lock,
\* then each Process up to the one looked for is locked and released.
find_process_by_id(id) ==
    <<Acquire("processes", 0, "exclusive", "none"), Release({<<"processes", 0>>}, "none")>>
        \o ConcatAll([q \in 1..id |->
               <<Acquire("process", q, "exclusive", "none"),
                 Release({<<"process", q>>}, "none")>>])

\* draw.rs 138-159 and 19-34: the title and the content of one pane, drawn
\* while draw holds root_node.
draw_pane(p) ==
    find_process_by_id(p)
        \o <<Acquire("process", p, "exclusive", "none"),
             Acquire("terminal_info", p, "exclusive", "none"),
             Release({<<"terminal_info", p>>, <<"process", p>>}, "none"),
             Acquire("process", p, "exclusive", "none"),
             Acquire("terminal_info", p, "exclusive", "none"),
             Acquire("terminal", p, "exclusive", "none"),
             Release({<<"terminal", p>>, <<"terminal_info", p>>, <<"process", p>>}, "none")>>

\* draw.rs 169-278, one pass of draw_loop (281-292): stdout for the whole
\* pass, root_node around draw_node (183-193), then the cursor of the
\* active pane, for which root_node is locked again under the Process and
\* its terminal_info when the cursor is visible (255-265).
draw_pass(active, visible) ==
    <<Acquire("stdout", 0, "exclusive", "begin"),
      Acquire("root_node", 0, "exclusive", "none")>>
        \o ConcatAll([p \in LockPanes |-> draw_pane(p)])
        \o <<Release({<<"root_node", 0>>}, "none")>>
        \o find_process_by_id(active)
        \o <<Acquire("process", active, "exclusive", "none"),
             Acquire("terminal_info", active, "exclusive", "none"),
             Release({<<"terminal_info", active>>, <<"process", active>>}, "none"),
             Acquire("process", active, "exclusive", "none"),
             Acquire("terminal_info", active, "exclusive", "none")>>
        \o (IF visible THEN <<Acquire("root_node", 0, "exclusive", "none")>> ELSE <<>>)
        \o <<Release({<<"root_node", 0>>, <<"terminal_info", active>>,
                      <<"process", active>>, <<"stdout", 0>>}, "end")>>

\* input.rs 231-322, the task spawned by on_mouse_event: under the mouse
\* position and the process list each Process is locked in turn and its
\* rectangle is read through State::get_span_dimensions (state.rs 107-112),
\* which reads root_node; the pane under the pointer gets the event on its
\* stdin.
on_mouse_event(target) ==
    <<Acquire("current_mouse_position", 0, "exclusive", "none"),
      Acquire("processes", 0, "shared", "none")>>
        \o ConcatAll([q \in 1..(target - 1) |->
               <<Acquire("process", q, "exclusive", "none"),
                 Acquire("root_node", 0, "shared", "none"),
                 Release({<<"root_node", 0>>, <<"process", q>>}, "none")>>])
        \o <<Acquire("process", target, "exclusive", "none"),
             Acquire("root_node", 0, "shared", "none"),
             Release({<<"root_node", 0>>}, "none"),
             Acquire("terminal_info", target, "exclusive", "none"),
             Acquire("stdin", target, "exclusive", "none"),
             Release({<<"stdin", target>>, <<"terminal_info", target>>,
                      <<"process", target>>, <<"processes", 0>>,
                      <<"current_mouse_position", 0>>}, "none")>>

\* process.rs 69-74 and 184-187, one turn of the loop of handle_process:
\* the Process for its stdout handle, then the Process and its
\* terminal_info for the bytes read.
handle_process(p) ==
    <<Acquire("process", p, "exclusive", "none"),
      Release({<<"process", p>>}, "none"),
      Acquire("process", p, "exclusive", "none"),
      Acquire("terminal_info", p, "exclusive", "none"),
      Release({<<"terminal_info", p>>, <<"process", p>>}, "change")>>

\* spawn.rs 341-406, kill_span: remove_node_from_state under root_node,
\* kill_process under the list, the Processes before the one killed and
\* its terminal, then trigger_draw.
kill_span_locks(p) ==
    <<Acquire("root_node", 0, "exclusive", "none"),
      Release({<<"root_node", 0>>}, "change"),
      Acquire("processes", 0, "exclusive", "none")>>
        \o ConcatAll([q \in 1..(p - 1) |->
               <<Acquire("process", q, "exclusive", "none"),
                 Release({<<"process", q>>}, "none")>>])
        \o <<Acquire("process", p, "exclusive", "none"),
             Acquire("terminal", p, "exclusive", "none"),
             Release({<<"terminal", p>>, <<"process", p>>, <<"processes", 0>>}, "pane_exit")>>

\* spawn.rs 214-271 with 32-36, create_process: create_span under
\* root_node, the push under the list, then trigger_draw.
create_process_locks ==
    <<Acquire("root_node", 0, "exclusive", "none"),
      Release({<<"root_node", 0>>}, "change"),
      Acquire("processes", 0, "exclusive", "none"),
      Release({<<"processes", 0>>}, "input")>>

LockProgram(t) ==
    CASE t = "draw" -> draw_pass(lock_at[t].pane, lock_at[t].visible)
      [] t = "mouse" -> on_mouse_event(lock_at[t].pane)
      [] t = "pane" -> handle_process(lock_at[t].pane)
      [] t = "kill" -> kill_span_locks(lock_at[t].pane)
      [] t = "create" -> create_process_locks

\* tokio Mutex::lock and RwLock::write wait until nobody holds the lock,
\* RwLock::read until no writer holds it.
CanAcquire(o) ==
    \A l \in o.locks :
        IF o.mode = "shared" THEN \A h \in held[l] : h[2] = "shared"
        ELSE held[l] = {}

\* draw_loop starts its next pass; the active pane and the cursor flag of
\* its emulator are what they are at that moment.
StartDraw ==
    /\ lock_at["draw"].pc = 0
    /\ \E active \in LockPanes, visible \in BOOLEAN :
           lock_at' = [lock_at EXCEPT !["draw"] = [pc |-> 1, pane |-> active, visible |-> visible]]
    /\ UNCHANGED <<held, version, schedVars>>

\* A mouse event arrives, bytes of a pane arrive, a pane ends or Alt+q is
\* pressed, Alt+n is pressed.
StartTask(t, p) ==
    /\ t # "draw"
    /\ lock_at[t].pc = 0
    /\ t # "mouse" => version.budget < MaxChanges
    /\ lock_at' = [lock_at EXCEPT ![t] = [pc |-> 1, pane |-> IF t = "create" THEN 0 ELSE p,
                                          visible |-> FALSE]]
    /\ version' = [version EXCEPT !.budget = IF t = "mouse" THEN @ ELSE @ + 1]
    /\ UNCHANGED <<held, schedVars>>

\* The next lock operation of a task.  An acquire waits until CanAcquire.
LockStep(t) ==
    /\ lock_at[t].pc > 0
    /\ LET program == LockProgram(t)
           o == program[lock_at[t].pc]
       IN  /\ o.op = "acquire" => CanAcquire(o)
           /\ held' = [l \in Locks |->
                          IF l \notin o.locks THEN held[l]
                          ELSE IF o.op = "acquire" THEN held[l] \cup {<<t, o.mode>>}
                          ELSE {h \in held[l] : h[1] # t}]
           /\ version' = CASE o.mark = "begin" -> [version EXCEPT !.read = version.state]
                           [] o.mark = "end" -> [version EXCEPT !.drawn = version.read]
                           [] o.mark = "change" -> [version EXCEPT !.state = @ + 1]
                           [] OTHER -> version
           /\ IF o.mark \in TriggerSources
              THEN TriggerDraw(o.mark)
              ELSE UNCHANGED schedVars
           /\ lock_at' = [lock_at EXCEPT ![t] =
                             IF lock_at[t].pc = Len(program) THEN Idle
                             ELSE [@ EXCEPT !.pc = @ + 1]]

\* The steps of SpecLocks leave the rest of the state alone.
DrawStarts ==
    StartDraw /\ UNCHANGED <<treeVars, layoutVars, canvasVars, drawVars, paneVars, ptyVars, exitVars, raceVars, renderVars, termVars>>
TaskStarts(t, p) ==
    StartTask(t, p) /\ UNCHANGED <<treeVars, layoutVars, canvasVars, drawVars, paneVars, ptyVars, exitVars, raceVars, renderVars, termVars>>
TaskSteps(t) ==
    LockStep(t) /\ UNCHANGED <<treeVars, layoutVars, canvasVars, drawVars, paneVars, ptyVars, exitVars, raceVars, renderVars, termVars>>

NextLocks ==
    \/ DrawStarts
    \/ \E t \in LockTasks, p \in LockPanes : TaskStarts(t, p)
    \/ \E t \in LockTasks : TaskSteps(t)

SpecLocks == Init /\ [][NextLocks]_vars

\* The runtime polls every task that can go on, the locks of tokio serve
\* their waiters in the order of arrival, and draw_loop never stops of its
\* own; events from outside may or may not come.
SpecLocksFair ==
    /\ Init
    /\ [][NextLocks]_vars
    /\ WF_vars(DrawStarts)
    /\ \A t \in LockTasks : SF_vars(TaskSteps(t))

\* A task that is waiting for a lock, and the tasks that keep it waiting.
Waiting(t) ==
    /\ lock_at[t].pc > 0
    /\ LockProgram(t)[lock_at[t].pc].op = "acquire"
    /\ ~CanAcquire(LockProgram(t)[lock_at[t].pc])
Blockers(t) ==
    LET o == LockProgram(t)[lock_at[t].pc]
    IN  {h[1] : h \in {g \in UNION {held[l] : l \in o.locks} :
                          o.mode = "exclusive" \/ g[2] = "exclusive"}}
Deadlocked(S) ==
    /\ S # {}
    /\ \A t \in S : Waiting(t) /\ Blockers(t) \subseteq S

\* C40: no set of tasks is ever such that each of them waits for a lock
\* held by others of the set.
C40_NoDeadlock ==
    \A S \in SUBSET LockTasks : ~Deadlocked(S)

\* C34: under fair scheduling every change of the layout or of a pane's
\* content is followed by a draw that started after the change and that
\* completes, whether or not the draw request raised for it was dropped.
C34_ChangeIsDrawn ==
    \A v \in 1..MaxChanges : (version.state >= v) ~> (version.drawn >= v)

====
